---- MODULE Spec2Model ----
(***************************************************************************)
(* Model of the codex-psychology MCP server: the SQLite store of           *)
(* mcp_server/database.py and the tools of mcp_server/server.py that write *)
(* to it.  A table is a sequence of rows; a row's AUTOINCREMENT id is its  *)
(* position, since no statement of the program deletes a row.  Timestamps  *)
(* are readings of the wall clock (datetime.now().isoformat()), modelled   *)
(* as integers that compare the way the ISO strings do.                    *)
(***************************************************************************)
EXTENDS Integers, Sequences, FiniteSets, TLC

VARIABLES
    clock,                 \* the wall clock that datetime.now() reads
    git_history,           \* the git history of HEAD of each repository on
                           \*   disk, newest commit first
    current_repo_path,     \* server.py _current_repo_path ("" models None)
    current_repo_id,       \* server.py _current_repo_id   (0 models None)
    repositories,          \* table repositories
    issue_flags,           \* table issue_flags
    scan_sessions,         \* table scan_sessions
    security_issues,       \* table security_issues
    git_patterns,          \* table git_patterns
    behavioral_patterns,   \* table behavioral_patterns
    recurring_issues,      \* table recurring_issues
    fix_attempts,          \* table fix_attempts
    fix_attempts_roasting, \* table fix_attempts_roasting
    call,                  \* the operation invoked last, with its arguments
    result,                \* the JSON result it returned
    flag_calls,            \* history: db.flag_issue calls completed per key
    ingested,              \* history: findings ingested into an existing session,
                           \*   per (repository, category, first 100 characters)
    fix_calls,             \* history: save_fix_attempt_tool calls that returned
                           \*   success, per (repo_id, issue_type)
    discovery_calls,       \* history: submit_discovery_answers calls completed
                           \*   per session id
    restarts,              \* history: the issue_flags table that each restart
                           \*   of the server process found
    ops,                   \* bound: number of tool calls still to be made
    pc,                    \* concurrent callers: position in the upsert
    req,                   \* concurrent callers: the arguments of the call
    found,                 \* concurrent callers: what the SELECT returned
    returned               \* history: upsert calls per key that returned / raised

store == <<repositories, issue_flags, scan_sessions, security_issues,
           git_patterns, behavioral_patterns, recurring_issues>>
fixes == <<fix_attempts, fix_attempts_roasting>>
process == <<current_repo_path, current_repo_id>>
callers == <<pc, req, found, returned>>
history == <<flag_calls, ingested, fix_calls, discovery_calls, restarts>>
vars == <<clock, git_history, process, store, fixes, call, result, history, ops, callers>>

-----------------------------------------------------------------------------
(* Bounds of the model *)

MaxTime == 1
MaxOps == 3            \* tool calls in a run of the whole server
MaxFlagOps == 4        \* tool calls in a run of the repository tools
MaxSessionOps == 4     \* tool calls in a run of the session tools
MaxIngestOps == 4      \* tool calls in a run of the ingestion tools
MaxConcurrentCalls == 3 \* upsert calls in a run of the concurrent callers
MaxQueryOps == 3       \* tool calls in a run of the session and query tools
MaxFaultOps == 3       \* tool calls in a run with failing store statements
MaxScopedOps == 3      \* tool calls in a run of the repository-scoped tools
MaxDetectOps == 2      \* tool calls in a run of the detectors
MaxRestartOps == 5     \* tool calls in a run with restarts
MaxDiscoveryOps == 5   \* tool calls in a run of the discovery answers
MaxScanOps == 3        \* tool calls in a run of the scan reports
MaxLifecycleOps == 4   \* tool calls in a run of the session lifecycle
MaxReopenOps == 7      \* tool calls in a run of one repository's sessions
MaxConcurrentStarts == 3 \* start_session calls in a run of the concurrent callers
MaxSignatureOps == 3   \* tool calls in a run of the signature scans
MaxIsolationOps == 4   \* tool calls in a run of the keyed records
MaxCommits == 5        \* commits of a repository on disk

(* Input domains *)

ValidRepos == {"/r1", "/r2"}
AllPaths == ValidRepos \cup {"/plain", "/missing"}
IssueTypes == {"hardcoded_secret", "minimizing_language"}
Notes == {"note-a", "note-b"}
Severities == {3, 8}                      \* tenths: 0.3, 0.8
PatternNames == {"minimizing_language", "user_self_assessment"}
Ratings == {3, 9}
Durations == {7}                          \* measured scan_duration_ms
FixDescriptions == {"rotate the key"}
Outcomes == {""}

\* 100 characters shared by two summaries that differ only after them
Prefix100 == "aaaaaaaaaaaaaaaaaaaaaaaaaaaaaaaaaaaaaaaaaaaaaaaaaaaaaaaaaaaaaaaaaaaaaaaaaaaaaaaaaaaaaaaaaaaaaaaaaaaa"
FindingA == [severity |-> "high", category |-> "sql_injection", summary |-> Prefix100 \o "x"]
FindingB == [severity |-> "low", category |-> "sql_injection", summary |-> Prefix100 \o "y"]
FindingC == [severity |-> "high", category |-> "xss", summary |-> "unescaped output"]
Findings == {FindingA, FindingB, FindingC}
\* security_analysis payloads: text that is not JSON, or a report with issues
SecurityPayloads ==
    {[json |-> FALSE]} \cup {[json |-> TRUE, issues |-> <<>>]}
        \cup {[json |-> TRUE, issues |-> <<f>>] : f \in Findings}
        \cup {[json |-> TRUE, issues |-> <<FindingA, FindingB>>]}
\* the security_analysis payloads of the ingestion runs: the two findings
\* that share their first 100 characters, apart and together
IngestPayloads ==
    {[json |-> FALSE],
     [json |-> TRUE, issues |-> <<FindingA>>],
     [json |-> TRUE, issues |-> <<FindingB>>],
     [json |-> TRUE, issues |-> <<FindingA, FindingB>>]}
\* two findings of different categories, one with a colon in its category and
\* one with a colon in its summary
FindingColonCategory == [severity |-> "high", category |-> "auth:token", summary |-> "leak"]
FindingColonSummary == [severity |-> "high", category |-> "auth", summary |-> "token:leak"]
\* the security_analysis payloads of the signature runs
SignaturePayloads ==
    {[json |-> TRUE, issues |-> <<FindingColonCategory>>],
     [json |-> TRUE, issues |-> <<FindingColonSummary>>],
     [json |-> TRUE, issues |-> <<FindingA, FindingColonSummary>>]}
\* git_analysis payloads: text that is not JSON, or a detector report
GitPayloads ==
    { [json |-> FALSE],
      [json |-> TRUE,
       patterns |-> << <<"many_small_commits", TRUE>>, <<"has_large_commits", FALSE>> >>,
       commits |-> << [sha |-> "c0ffee01"] >>] }
\* the git_analysis payloads of the scan runs: also a report with two true
\* flags, a false one and more commits than save_scan_results takes
ScanGitPayloads ==
    GitPayloads \cup
    { [json |-> TRUE,
       patterns |-> << <<"many_small_commits", TRUE>>, <<"has_large_commits", FALSE>>,
                       <<"commits_at_night", TRUE>> >>,
       commits |-> [i \in 1..11 |-> [sha |-> "c0ffee" \o ToString(i)]]] }
Callers == {"c1", "c2"}

\* commits of the repositories on disk: the first line of the message, the
\* rest of it, lines changed, and the hour, weekday and age in days of the
\* commit date
RootCommit ==
    [sha |-> "00000001", message |-> "Initial import", lines |-> 5,
     hour |-> 10, weekday |-> "Monday", days_ago |-> 45]
NewCommits ==
    { [sha |-> "a1a1a1a1", message |-> "quick fix", lines |-> 300,
       hour |-> 23, weekday |-> "Saturday", days_ago |-> 1],
      [sha |-> "c3c3c3c3", message |-> "Small parser\n\nJust a final update of a bug",
       lines |-> 100, hour |-> 3, weekday |-> "Sunday", days_ago |-> 3] }
Limits == {0, 2, 50}                      \* limit: int = 50, and smaller ones
DefaultLimit == 50
Days == {30, 60}                          \* days: int = 30, and a longer one
DefaultDays == 30

RepoIds == 1 .. Cardinality(ValidRepos)
FlagKeys == RepoIds \X IssueTypes

\* the keys the concurrent callers upsert: table, then the two key columns
UpsertKeys ==
    ({"issue_flags"} \X {1} \X IssueTypes)
        \cup ({"behavioral_patterns"} \X {1} \X PatternNames)
        \cup ({"recurring_issues"} \X {"/r1"} \X {"sql_injection:a", "xss:b"})

\* "the same finding": same category and same first 100 characters of summary
SameFindingKey(f) ==
    <<f.category, IF Len(f.summary) <= 100 THEN f.summary ELSE SubSeq(f.summary, 1, 100)>>
FindingKeys == ValidRepos \X {SameFindingKey(f) : f \in Findings}

NoRepoPath == ""
NoRepoId == 0
NULL == -1                                \* SQL NULL in an INTEGER/TEXT column
SignaturePrefixLen == 100                 \* summary[:100]
NotableCommitLimit == 10                  \* commits[:10]
ExampleLimit == 5                         \* minimizing[:5] and the other three
FixAttemptLimit == 10                     \* LIMIT 10 of get_repo_context
ScanHistoryLimit == 10                    \* limit: int = 10 of get_scan_history
FixPromptAttemptLimit == 3                \* LIMIT 3 of generate_fix_prompt

\* Path(repo_path).exists()
PathExists(repo_path) == repo_path # "/missing"
\* a check of the .git directory that accepts every path
HasGitDir_unchecked(repo_path) == TRUE

\* (Path(repo_path) / ".git").exists()
HasGitDir(repo_path) == repo_path \in ValidRepos

Min(S) == CHOOSE x \in S : \A y \in S : x <= y

-----------------------------------------------------------------------------
(* database.py: repositories *)

RepoRows(repos, repo_path) ==
    {i \in DOMAIN repos : repos[i].repo_path = repo_path}

\* a get_or_create_repo that inserts a row on every reference
get_or_create_repo_rows_always_inserting(repos, repo_path, now) ==
    Append(repos, [repo_path |-> repo_path,
                   first_analyzed_at |-> now,
                   last_analyzed_at |-> now,
                   total_scans |-> 0])

\* get_or_create_repo: the table after the call
get_or_create_repo_rows(repos, repo_path, now) ==
    IF RepoRows(repos, repo_path) # {}
    THEN [repos EXCEPT ![Min(RepoRows(repos, repo_path))].last_analyzed_at = now]
    ELSE Append(repos, [repo_path |-> repo_path,
                        first_analyzed_at |-> now,
                        last_analyzed_at |-> now,
                        total_scans |-> 0])

\* get_or_create_repo: the id it returns
get_or_create_repo_id(repos, repo_path) ==
    IF RepoRows(repos, repo_path) # {}
    THEN Min(RepoRows(repos, repo_path))
    ELSE Len(repos) + 1

-----------------------------------------------------------------------------
(* database.py: issue_flags *)

FlagRows(flags, repo_id, issue_type) ==
    {i \in DOMAIN flags : /\ flags[i].repo_id = repo_id
                          /\ flags[i].issue_type = issue_type}

\* flag_issue, the SELECT: did fetchone() return a row
flag_issue_select(flags, repo_id, issue_type) ==
    FlagRows(flags, repo_id, issue_type) # {}

\* an UPDATE that forgets occurrence_count = occurrence_count + 1
flag_issue_update_no_increment(flags, repo_id, issue_type, severity, notes, now) ==
    [i \in DOMAIN flags |->
        IF i \in FlagRows(flags, repo_id, issue_type)
        THEN [flags[i] EXCEPT !.last_detected_at = now,
                              !.severity = severity,
                              !.notes = notes]
        ELSE flags[i]]

\* flag_issue, the UPDATE branch
flag_issue_update(flags, repo_id, issue_type, severity, notes, now) ==
    [i \in DOMAIN flags |->
        IF i \in FlagRows(flags, repo_id, issue_type)
        THEN [flags[i] EXCEPT !.occurrence_count = @ + 1,
                              !.last_detected_at = now,
                              !.severity = severity,
                              !.notes = notes]
        ELSE flags[i]]

\* UNIQUE(repo_id, issue_type) of issue_flags
issue_flags_unique_ok(flags, repo_id, issue_type) ==
    FlagRows(flags, repo_id, issue_type) = {}

\* flag_issue, the INSERT branch (the statement itself, constraint aside)
flag_issue_insert(flags, repo_id, issue_type, severity, notes, now) ==
    Append(flags, [repo_id |-> repo_id,
                   issue_type |-> issue_type,
                   first_detected_at |-> now,
                   last_detected_at |-> now,
                   occurrence_count |-> 1,
                   severity |-> severity,
                   notes |-> notes])

\* a flag_issue whose UPDATE appends the notes and keeps the first severity
flag_issue_merging_notes(flags, repo_id, issue_type, severity, notes, now) ==
    IF flag_issue_select(flags, repo_id, issue_type)
    THEN [ok |-> TRUE,
          rows |-> [i \in DOMAIN flags |->
                       IF i \in FlagRows(flags, repo_id, issue_type)
                       THEN [flags[i] EXCEPT !.occurrence_count = @ + 1,
                                             !.last_detected_at = now,
                                             !.notes = @ \o "; " \o notes]
                       ELSE flags[i]]]
    ELSE [ok |-> TRUE,
          rows |-> flag_issue_insert(flags, repo_id, issue_type, severity, notes, now)]

\* flag_issue run to completion by one caller: ok = FALSE is the
\* sqlite3.IntegrityError of a rejected INSERT, rolled back by get_db
flag_issue(flags, repo_id, issue_type, severity, notes, now) ==
    IF flag_issue_select(flags, repo_id, issue_type)
    THEN [ok |-> TRUE,
          rows |-> flag_issue_update(flags, repo_id, issue_type, severity, notes, now)]
    ELSE IF issue_flags_unique_ok(flags, repo_id, issue_type)
         THEN [ok |-> TRUE,
               rows |-> flag_issue_insert(flags, repo_id, issue_type, severity, notes, now)]
         ELSE [ok |-> FALSE, rows |-> flags]

\* get_repo_context: the flagged_issues it returns for a repository
ContextFlaggedIssues(flags, repo_id) ==
    {i \in DOMAIN flags : flags[i].repo_id = repo_id}

-----------------------------------------------------------------------------
(* database.py: scan_sessions *)

\* create_scan_session: the table after the INSERT (the id is the new length)
create_scan_session(sessions, repo_path, now) ==
    Append(sessions, [repo_path |-> repo_path,
                      started_at |-> now,
                      completed_at |-> NULL,
                      total_issues |-> 0,
                      scan_duration_ms |-> NULL])

\* an UPDATE ... WHERE id = ? AND completed_at IS NULL
complete_scan_session_open_only(sessions, session_id, total_issues, duration_ms, now) ==
    [i \in DOMAIN sessions |->
        IF i = session_id /\ sessions[i].completed_at = NULL
        THEN [sessions[i] EXCEPT !.completed_at = now,
                                 !.total_issues = total_issues,
                                 !.scan_duration_ms = duration_ms]
        ELSE sessions[i]]

\* complete_scan_session: UPDATE ... WHERE id = ?, no row matched is no error
complete_scan_session(sessions, session_id, total_issues, duration_ms, now) ==
    [i \in DOMAIN sessions |->
        IF i = session_id
        THEN [sessions[i] EXCEPT !.completed_at = now,
                                 !.total_issues = total_issues,
                                 !.scan_duration_ms = duration_ms]
        ELSE sessions[i]]

\* get_scan_history(repo_path, limit=1): the ids ORDER BY started_at DESC
\* LIMIT 1 may return; rows with equal started_at come in no defined order
get_scan_history_first(sessions, repo_path) ==
    {i \in DOMAIN sessions :
        /\ sessions[i].repo_path = repo_path
        /\ \A j \in DOMAIN sessions :
              sessions[j].repo_path = repo_path
                  => sessions[j].started_at <= sessions[i].started_at}

-----------------------------------------------------------------------------
(* database.py: security_issues, git_patterns *)

\* save_security_issue
save_security_issue(issues, session_id, severity, category, summary) ==
    Append(issues, [session_id |-> session_id,
                    severity |-> severity,
                    category |-> category,
                    summary |-> summary])

\* save_git_pattern
save_git_pattern(patterns, session_id, pattern_type, commit_sha) ==
    Append(patterns, [session_id |-> session_id,
                      pattern_type |-> pattern_type,
                      commit_sha |-> commit_sha])

-----------------------------------------------------------------------------
(* database.py: behavioral_patterns (the table declares no UNIQUE) *)

PatternRows(patterns, session_id, pattern_name) ==
    {i \in DOMAIN patterns : /\ patterns[i].session_id = session_id
                             /\ patterns[i].pattern_name = pattern_name}

\* a SELECT by pattern_name alone, whatever the session
flag_behavioral_pattern_select_any_session(patterns, session_id, pattern_name) ==
    \E i \in DOMAIN patterns : patterns[i].pattern_name = pattern_name

\* flag_behavioral_pattern, the SELECT
flag_behavioral_pattern_select(patterns, session_id, pattern_name) ==
    PatternRows(patterns, session_id, pattern_name) # {}

\* an UPDATE that restarts the count of a re-flagged pattern
flag_behavioral_pattern_update_reset(patterns, session_id, pattern_name, evidence, severity, now) ==
    [i \in DOMAIN patterns |->
        IF i \in PatternRows(patterns, session_id, pattern_name)
        THEN [patterns[i] EXCEPT !.occurrence_count = 1,
                                 !.last_updated = now,
                                 !.evidence = evidence,
                                 !.severity = severity]
        ELSE patterns[i]]

\* flag_behavioral_pattern, the UPDATE branch
flag_behavioral_pattern_update(patterns, session_id, pattern_name, evidence, severity, now) ==
    [i \in DOMAIN patterns |->
        IF i \in PatternRows(patterns, session_id, pattern_name)
        THEN [patterns[i] EXCEPT !.occurrence_count = @ + 1,
                                 !.last_updated = now,
                                 !.evidence = evidence,
                                 !.severity = severity]
        ELSE patterns[i]]

\* flag_behavioral_pattern, the INSERT branch
flag_behavioral_pattern_insert(patterns, session_id, pattern_name, evidence, severity, now) ==
    Append(patterns, [session_id |-> session_id,
                      pattern_name |-> pattern_name,
                      evidence |-> evidence,
                      severity |-> severity,
                      first_flagged |-> now,
                      last_updated |-> now,
                      occurrence_count |-> 1])

\* flag_behavioral_pattern run to completion by one caller
flag_behavioral_pattern_db(patterns, session_id, pattern_name, evidence, severity, now) ==
    IF flag_behavioral_pattern_select(patterns, session_id, pattern_name)
    THEN flag_behavioral_pattern_update(patterns, session_id, pattern_name,
                                        evidence, severity, now)
    ELSE flag_behavioral_pattern_insert(patterns, session_id, pattern_name,
                                        evidence, severity, now)

-----------------------------------------------------------------------------
(* database.py: recurring_issues *)

RecurringRows(recurring, repo_path, issue_signature) ==
    {i \in DOMAIN recurring : /\ recurring[i].repo_path = repo_path
                              /\ recurring[i].issue_signature = issue_signature}

\* track_recurring_issue, the SELECT
track_recurring_issue_select(recurring, repo_path, issue_signature) ==
    RecurringRows(recurring, repo_path, issue_signature) # {}

\* an UPDATE with WHERE issue_signature = ? alone, whatever the repo_path
track_recurring_issue_update_any_repo(recurring, repo_path, issue_signature, now) ==
    [i \in DOMAIN recurring |->
        IF recurring[i].issue_signature = issue_signature
        THEN [recurring[i] EXCEPT !.occurrence_count = @ + 1,
                                  !.last_seen = now]
        ELSE recurring[i]]

\* track_recurring_issue, the UPDATE branch
track_recurring_issue_update(recurring, repo_path, issue_signature, now) ==
    [i \in DOMAIN recurring |->
        IF i \in RecurringRows(recurring, repo_path, issue_signature)
        THEN [recurring[i] EXCEPT !.occurrence_count = @ + 1,
                                  !.last_seen = now]
        ELSE recurring[i]]

\* UNIQUE(repo_path, issue_signature) of recurring_issues
recurring_issues_unique_ok(recurring, repo_path, issue_signature) ==
    RecurringRows(recurring, repo_path, issue_signature) = {}

\* track_recurring_issue, the INSERT branch
track_recurring_issue_insert(recurring, repo_path, issue_signature, now) ==
    Append(recurring, [repo_path |-> repo_path,
                       issue_signature |-> issue_signature,
                       first_seen |-> now,
                       last_seen |-> now,
                       occurrence_count |-> 1])

\* track_recurring_issue run to completion by one caller
track_recurring_issue(recurring, repo_path, issue_signature, now) ==
    IF track_recurring_issue_select(recurring, repo_path, issue_signature)
    THEN [ok |-> TRUE,
          rows |-> track_recurring_issue_update(recurring, repo_path, issue_signature, now)]
    ELSE IF recurring_issues_unique_ok(recurring, repo_path, issue_signature)
         THEN [ok |-> TRUE,
               rows |-> track_recurring_issue_insert(recurring, repo_path, issue_signature, now)]
         ELSE [ok |-> FALSE, rows |-> recurring]

-----------------------------------------------------------------------------
(* database.py: fix_attempts, fix_attempts_roasting.  The module defines   *)
(* save_fix_attempt twice; the second definition rebinds the name, so it   *)
(* is the one db.save_fix_attempt calls.                                   *)

\* a save_fix_attempt that overwrites the newest row of the log
save_fix_attempt_overwriting(roasting, issue_id, fix_prompt, success, notes, now) ==
    LET row == [issue_id |-> issue_id,
                fix_prompt |-> fix_prompt,
                attempted_at |-> now,
                success |-> IF success # "" THEN 1 ELSE 0,
                notes |-> notes]
    IN  IF roasting = <<>>
        THEN <<row>>
        ELSE [roasting EXCEPT ![Len(roasting)] = row]

\* save_fix_attempt: INSERT INTO fix_attempts_roasting; success is stored as
\* 1 if the argument is truthy, else 0
save_fix_attempt(roasting, issue_id, fix_prompt, success, notes, now) ==
    Append(roasting, [issue_id |-> issue_id,
                      fix_prompt |-> fix_prompt,
                      attempted_at |-> now,
                      success |-> IF success # "" THEN 1 ELSE 0,
                      notes |-> notes])

FixAttemptRows(attempts, repo_id) ==
    {i \in DOMAIN attempts : attempts[i].repo_id = repo_id}

\* get_repo_context: the fix_attempts rows it may return for a repository,
\* ORDER BY attempted_at DESC LIMIT 10 (equal timestamps in no defined order)
ContextFixAttempts(attempts, repo_id) ==
    LET rows == FixAttemptRows(attempts, repo_id)
    IN  {shown \in SUBSET rows :
            /\ Cardinality(shown) =
                   (IF Cardinality(rows) <= FixAttemptLimit
                    THEN Cardinality(rows) ELSE FixAttemptLimit)
            /\ \A i \in shown, j \in rows \ shown :
                   attempts[j].attempted_at <= attempts[i].attempted_at}

-----------------------------------------------------------------------------
InitStore ==
    /\ clock = 0
    /\ git_history = [repo_path \in ValidRepos |-> <<RootCommit>>]
    /\ current_repo_path = NoRepoPath
    /\ current_repo_id = NoRepoId
    /\ repositories = <<>>
    /\ issue_flags = <<>>
    /\ scan_sessions = <<>>
    /\ security_issues = <<>>
    /\ git_patterns = <<>>
    /\ behavioral_patterns = <<>>
    /\ recurring_issues = <<>>
    /\ fix_attempts = <<>>
    /\ fix_attempts_roasting = <<>>
    /\ call = [op |-> "none"]
    /\ result = [status |-> "none"]
    /\ flag_calls = [k \in FlagKeys |-> 0]
    /\ ingested = [k \in FindingKeys |-> 0]
    /\ fix_calls = [k \in FlagKeys |-> 0]
    /\ discovery_calls = <<>>
    /\ restarts = <<>>
    /\ pc = [c \in Callers |-> "idle"]
    /\ req = [c \in Callers |-> [op |-> "none"]]
    /\ found = [c \in Callers |-> FALSE]
    /\ returned = [k \in UpsertKeys |-> [ok |-> 0, raised |-> 0]]

Init == InitStore /\ ops = MaxOps
InitFlag == InitStore /\ ops = MaxFlagOps
InitSession == InitStore /\ ops = MaxSessionOps
InitIngest == InitStore /\ ops = MaxIngestOps
InitConcurrent == InitStore /\ ops = MaxConcurrentCalls
InitQuery == InitStore /\ ops = MaxQueryOps
InitFault == InitStore /\ ops = MaxFaultOps
InitScoped == InitStore /\ ops = MaxScopedOps
InitDetect == InitStore /\ ops = MaxDetectOps
InitRestart == InitStore /\ ops = MaxRestartOps
InitDiscovery == InitStore /\ ops = MaxDiscoveryOps
InitScan == InitStore /\ ops = MaxScanOps
InitLifecycle == InitStore /\ ops = MaxLifecycleOps
InitReopen == InitStore /\ ops = MaxReopenOps
InitConcurrentStart == InitStore /\ ops = MaxConcurrentStarts
InitSignature == InitStore /\ ops = MaxSignatureOps
InitIsolation == InitStore /\ ops = MaxIsolationOps

\* Time passes between two readings of the clock; two readings with no
\* tick between them return the same timestamp.
Tick ==
    /\ clock < MaxTime
    /\ clock' = clock + 1
    /\ UNCHANGED <<git_history, process, store, fixes, call, result, history, ops, callers>>

Invoke == ops > 0 /\ ops' = ops - 1

-----------------------------------------------------------------------------
(* server.py: repository tools *)

\* set_repository; git_read_ok is whether GitPython could read the
\* repository (Repo(), active_branch, iter_commits)
set_repository(repo_path, git_read_ok) ==
    /\ Invoke
    /\ call' = [op |-> "set_repository", repo_path |-> repo_path]
    /\ IF ~PathExists(repo_path) \/ ~HasGitDir(repo_path)
       THEN /\ result' = [status |-> "error",
                          message |-> IF ~PathExists(repo_path)
                                      THEN "Repository path does not exist"
                                      ELSE "Not a git repository"]
            /\ UNCHANGED <<process, store>>
       ELSE LET created == get_or_create_repo_rows(repositories, repo_path, clock)
                id == get_or_create_repo_id(repositories, repo_path)
                context == get_or_create_repo_rows(created, repo_path, clock)
            IN  /\ current_repo_path' = repo_path
                /\ current_repo_id' = id
                /\ IF git_read_ok
                   THEN /\ repositories' = context
                        /\ result' = [status |-> "success",
                                      repo_path |-> repo_path,
                                      total_previous_scans |-> context[id].total_scans]
                   ELSE /\ repositories' = created
                        /\ result' = [status |-> "error",
                                      message |-> "Failed to read repository"]
                /\ UNCHANGED <<issue_flags, scan_sessions, security_issues,
                               git_patterns, behavioral_patterns, recurring_issues>>
    /\ UNCHANGED <<clock, git_history, fixes, history, callers>>

\* get_repo_context (the tool)
get_repo_context ==
    /\ Invoke
    /\ call' = [op |-> "get_repo_context"]
    /\ IF current_repo_path = NoRepoPath
       THEN /\ result' = [status |-> "error",
                          message |-> "No repository set. Call set_repository() first."]
            /\ UNCHANGED store
       ELSE LET touched == get_or_create_repo_rows(repositories, current_repo_path, clock)
                id == get_or_create_repo_id(repositories, current_repo_path)
            IN  /\ repositories' = touched
                /\ \E shown \in ContextFixAttempts(fix_attempts, id) :
                       result' = [status |-> "success",
                                  repo_info |-> touched[id],
                                  flagged_issues |->
                                      {issue_flags[i] :
                                          i \in ContextFlaggedIssues(issue_flags, id)},
                                  fix_attempts |-> {fix_attempts[i] : i \in shown}]
                /\ UNCHANGED <<issue_flags, scan_sessions, security_issues,
                               git_patterns, behavioral_patterns, recurring_issues>>
    /\ UNCHANGED <<clock, git_history, process, fixes, history, callers>>

\* flag_repo_issue
flag_repo_issue(issue_type, severity, notes) ==
    /\ Invoke
    /\ call' = [op |-> "flag_repo_issue", issue_type |-> issue_type,
                severity |-> severity, notes |-> notes]
    /\ IF current_repo_id = NoRepoId
       THEN /\ result' = [status |-> "error",
                          message |-> "No repository set. Call set_repository() first."]
            /\ UNCHANGED <<store, flag_calls>>
       ELSE LET flagged == flag_issue(issue_flags, current_repo_id, issue_type,
                                      severity, notes, clock)
                touched == get_or_create_repo_rows(repositories, current_repo_path, clock)
                id == get_or_create_repo_id(repositories, current_repo_path)
                shown == {i \in ContextFlaggedIssues(flagged.rows, id) :
                             flagged.rows[i].issue_type = issue_type}
            IN  IF flagged.ok
                THEN /\ issue_flags' = flagged.rows
                     /\ repositories' = touched
                     /\ flag_calls' = [flag_calls EXCEPT
                                          ![<<current_repo_id, issue_type>>] = @ + 1]
                     /\ result' = [status |-> "success",
                                   issue_type |-> issue_type,
                                   occurrence_count |->
                                       IF shown # {}
                                       THEN flagged.rows[Min(shown)].occurrence_count
                                       ELSE 1]
                     /\ UNCHANGED <<scan_sessions, security_issues, git_patterns,
                                    behavioral_patterns, recurring_issues>>
                ELSE /\ result' = [status |-> "error",
                                   message |-> "Failed to flag issue"]
                     /\ UNCHANGED <<store, flag_calls>>
    /\ UNCHANGED <<clock, git_history, process, fixes, ingested, fix_calls, discovery_calls, restarts, callers>>

\* save_fix_attempt_tool: db.save_fix_attempt(_current_repo_id, issue_type,
\* fix_description, outcome) binds them to (issue_id, fix_prompt, success, notes)
save_fix_attempt_tool(issue_type, fix_description, outcome) ==
    /\ Invoke
    /\ call' = [op |-> "save_fix_attempt_tool", issue_type |-> issue_type]
    /\ IF current_repo_id = NoRepoId
       THEN /\ result' = [status |-> "error",
                          message |-> "No repository set. Call set_repository() first."]
            /\ UNCHANGED <<fixes, fix_calls>>
       ELSE /\ fix_attempts_roasting' =
                   save_fix_attempt(fix_attempts_roasting, current_repo_id,
                                    issue_type, fix_description, outcome, clock)
            /\ fix_calls' = [fix_calls EXCEPT ![<<current_repo_id, issue_type>>] = @ + 1]
            /\ result' = [status |-> "success",
                          message |-> "Fix attempt recorded"]
            /\ UNCHANGED fix_attempts
    /\ UNCHANGED <<clock, git_history, process, store, flag_calls, ingested, discovery_calls, restarts, callers>>

\* a guard that lets a repository tool run although no repository is set
NoRepositorySet_never == FALSE

\* if not _current_repo_path
NoRepositorySet == current_repo_path = NoRepoPath

\* the shape of get_project_summary, which the detectors share: the guard
\* on _current_repo_path, then a read of the git repository inside try;
\* git_read_ok is whether GitPython could read it.  No store statement.
read_repository(op, git_read_ok) ==
    /\ Invoke
    /\ call' = [op |-> op]
    /\ result' = IF NoRepositorySet
                 THEN [status |-> "error",
                       message |-> "No repository set. Call set_repository() first."]
                 ELSE IF git_read_ok
                      THEN [status |-> "success", repo_path |-> current_repo_path]
                      ELSE [status |-> "error", message |-> "Failed to read repository"]
    /\ UNCHANGED <<clock, git_history, process, store, fixes, history, callers>>

get_project_summary(git_read_ok) ==
    read_repository("get_project_summary", git_read_ok)

\* a CREATE TABLE that replaces the table the file already has
create_table_if_not_exists_dropping(table) == <<>>

\* initialize_database, run when the module is imported: CREATE TABLE IF NOT
\* EXISTS on a file that has the table leaves the table and its rows
create_table_if_not_exists(table) == table

\* the server process ends and a new one starts: the module globals are
\* None again, initialize_database runs on the database file the old
\* process left
restart ==
    /\ Invoke
    /\ call' = [op |-> "restart"]
    /\ result' = [status |-> "none"]
    /\ current_repo_path' = NoRepoPath
    /\ current_repo_id' = NoRepoId
    /\ repositories' = create_table_if_not_exists(repositories)
    /\ issue_flags' = create_table_if_not_exists(issue_flags)
    /\ scan_sessions' = create_table_if_not_exists(scan_sessions)
    /\ security_issues' = create_table_if_not_exists(security_issues)
    /\ git_patterns' = create_table_if_not_exists(git_patterns)
    /\ behavioral_patterns' = create_table_if_not_exists(behavioral_patterns)
    /\ recurring_issues' = create_table_if_not_exists(recurring_issues)
    /\ fix_attempts' = create_table_if_not_exists(fix_attempts)
    /\ fix_attempts_roasting' = create_table_if_not_exists(fix_attempts_roasting)
    /\ restarts' = Append(restarts, issue_flags)
    /\ UNCHANGED <<clock, git_history, flag_calls, ingested, fix_calls, discovery_calls, callers>>

-----------------------------------------------------------------------------
(* server.py: the detectors.  Each reads the commits of HEAD of the       *)
(* current repository through GitPython inside try; git_read_ok is whether *)
(* that read returned (a repository with no HEAD, or one that was removed, *)
(* makes it raise).  None of them has a store statement.                   *)

\* str.lower() on the letters
UpperCaseLetters == "ABCDEFGHIJKLMNOPQRSTUVWXYZ"
LowerCaseLetters == "abcdefghijklmnopqrstuvwxyz"

CharAt(s, i) == SubSeq(s, i, i)

lower_char(c) ==
    IF \E i \in 1..26 : CharAt(UpperCaseLetters, i) = c
    THEN CharAt(LowerCaseLetters, CHOOSE i \in 1..26 : CharAt(UpperCaseLetters, i) = c)
    ELSE c

RECURSIVE lower(_)
lower(s) ==
    IF s = "" THEN "" ELSE lower_char(CharAt(s, 1)) \o lower(SubSeq(s, 2, Len(s)))

\* word in msg: substring, not token
Contains(word, msg) ==
    \E i \in 1..(Len(msg) - Len(word) + 1) : SubSeq(msg, i, i + Len(word) - 1) = word

\* any(word in msg for word in words)
ContainsAny(words, msg) == \E word \in words : Contains(word, msg)

\* commit.message.split('\n')[0]
FirstLine(message) ==
    IF \E i \in 1..Len(message) : CharAt(message, i) = "\n"
    THEN SubSeq(message, 1,
                (CHOOSE i \in 1..Len(message) :
                    /\ CharAt(message, i) = "\n"
                    /\ \A j \in 1..(i - 1) : CharAt(message, j) # "\n") - 1)
    ELSE message

\* len(msg.split()): the runs of characters that are not whitespace
WordCount(msg) ==
    LET space(i) == CharAt(msg, i) \in {" ", "\n", "\t"}
    IN  Cardinality({i \in 1..Len(msg) : ~space(i) /\ (i = 1 \/ space(i - 1))})

\* round(num / den, 1) in tenths, den > 0: to the nearest tenth, a tie to the
\* even one
RoundTenths(num, den) ==
    LET q == (10 * num) \div den
        r == (10 * num) % den
    IN  IF 2 * r < den THEN q
        ELSE IF 2 * r > den THEN q + 1
        ELSE IF q % 2 = 0 THEN q ELSE q + 1

\* list(repo.iter_commits('HEAD', max_count=limit))
iter_commits(repo_path, limit) ==
    SubSeq(git_history[repo_path], 1, Min({limit, Len(git_history[repo_path])}))

\* analyze_commit_patterns: commit_data
CommitData(commit_window) ==
    [i \in 1..Len(commit_window) |->
        [sha |-> commit_window[i].sha,
         message |-> FirstLine(commit_window[i].message),
         lines_changed |-> commit_window[i].lines,
         hour_of_day |-> commit_window[i].hour]]

RECURSIVE SumLines(_)
SumLines(commit_data) ==
    IF commit_data = <<>> THEN 0
    ELSE Head(commit_data).lines_changed + SumLines(Tail(commit_data))

\* avg_lines = total_lines / len(commit_data) with no guard on the length:
\* the division raises on an empty window
avg_lines_unguarded(commit_data) ==
    IF commit_data = <<>> THEN NULL
    ELSE RoundTenths(SumLines(commit_data), Len(commit_data))

\* avg_lines = total_lines / len(commit_data) if commit_data else 0, then
\* round(avg_lines, 1); in tenths
avg_lines(commit_data) ==
    IF commit_data = <<>> THEN 0
    ELSE RoundTenths(SumLines(commit_data), Len(commit_data))

\* the report of analyze_commit_patterns over a window
CommitPatternsReport(commit_window) ==
    LET commit_data == CommitData(commit_window)
        n == Len(commit_data)
        avg == avg_lines(commit_data)
        small_commits == {i \in 1..n : commit_data[i].lines_changed < 10}
        large_commits == {i \in 1..n : commit_data[i].lines_changed > 200}
        night_commits == {i \in 1..n : \/ commit_data[i].hour_of_day >= 22
                                       \/ commit_data[i].hour_of_day < 6}
    IN  IF avg = NULL
        THEN [status |-> "error",
              message |-> "Failed to analyze commits: division by zero"]
        ELSE [status |-> "success",
              total_commits |-> n,
              avg_lines_per_commit |-> avg,
              small_commits_count |-> Cardinality(small_commits),
              large_commits_count |-> Cardinality(large_commits),
              night_commits_count |-> Cardinality(night_commits),
              commits |-> SubSeq(commit_data, 1, Min({NotableCommitLimit, n})),
              patterns |->
                  [has_many_small_commits |-> 10 * Cardinality(small_commits) > 3 * n,
                   has_large_commits |-> Cardinality(large_commits) > 0,
                   commits_at_night |-> 10 * Cardinality(night_commits) > 2 * n,
                   inconsistent_sizing |-> /\ Cardinality(small_commits) > 0
                                           /\ Cardinality(large_commits) > 0]]

analyze_commit_patterns(limit, git_read_ok) ==
    /\ Invoke
    /\ call' = [op |-> "analyze_commit_patterns", limit |-> limit,
                git_read_ok |-> git_read_ok]
    /\ result' = IF NoRepositorySet
                 THEN [status |-> "error",
                       message |-> "No repository set. Call set_repository() first."]
                 ELSE IF ~git_read_ok
                      THEN [status |-> "error", message |-> "Failed to analyze commits"]
                      ELSE CommitPatternsReport(iter_commits(current_repo_path, limit))
    /\ UNCHANGED <<clock, git_history, process, store, fixes, history, callers>>

\* analyze_message_language: the keyword lists
language_minimizing_words == {"just", "quick", "small", "minor", "tiny", "little"}
defensive_words == {"fix", "oops", "my bad", "sorry", "mistake", "bug"}
perfectionist_words == {"perfect", "complete", "final", "done", "finished"}
vague_words == {"update", "change", "stuff", "things", "misc"}

\* a loop that appends a commit once for every word of the list that its
\* message has
RECURSIVE LanguageMatches_per_word(_, _, _)
LanguageMatches_per_word(commit_window, words, i) ==
    IF i > Len(commit_window) THEN <<>>
    ELSE LET msg_lower == lower(commit_window[i].message)
             hits == Cardinality({word \in words : Contains(word, msg_lower)})
         IN  [k \in 1..hits |-> i]
             \o LanguageMatches_per_word(commit_window, words, i + 1)

\* for commit in commits: if any(word in msg_lower for word in words):
\* the list .append(...); the list of one category as the positions of the
\* window appended, from position i on
RECURSIVE LanguageMatches(_, _, _)
LanguageMatches(commit_window, words, i) ==
    IF i > Len(commit_window) THEN <<>>
    ELSE LET msg_lower == lower(commit_window[i].message)
         IN  (IF ContainsAny(words, msg_lower) THEN <<i>> ELSE <<>>)
             \o LanguageMatches(commit_window, words, i + 1)

\* the report of analyze_message_language over a window; the percentages
\* are in tenths of a percent.  len(x) / len(commits) raises on an empty
\* window, and the except clause turns that into an error result.
MessageLanguageReport(commit_window) ==
    LET n == Len(commit_window)
        minimizing == LanguageMatches(commit_window, language_minimizing_words, 1)
        defensive == LanguageMatches(commit_window, defensive_words, 1)
        perfectionist == LanguageMatches(commit_window, perfectionist_words, 1)
        vague == LanguageMatches(commit_window, vague_words, 1)
        category(matches) ==
            [count |-> Len(matches),
             percentage |-> RoundTenths(100 * Len(matches), n),
             examples |-> SubSeq(matches, 1, Min({ExampleLimit, Len(matches)}))]
    IN  IF n = 0
        THEN [status |-> "error",
              message |-> "Failed to analyze language: division by zero"]
        ELSE [status |-> "success",
              total_commits |-> n,
              minimizing_language |-> category(minimizing),
              defensive_language |-> category(defensive),
              perfectionist_language |-> category(perfectionist),
              vague_language |-> category(vague),
              patterns |->
                  [frequently_minimizes |-> 10 * Len(minimizing) > 2 * n,
                   frequently_defensive |-> 100 * Len(defensive) > 15 * n,
                   seeks_perfection |-> 10 * Len(perfectionist) > n,
                   often_vague |-> 10 * Len(vague) > 3 * n]]

analyze_message_language(limit, git_read_ok) ==
    /\ Invoke
    /\ call' = [op |-> "analyze_message_language", limit |-> limit,
                git_read_ok |-> git_read_ok]
    /\ result' = IF NoRepositorySet
                 THEN [status |-> "error",
                       message |-> "No repository set. Call set_repository() first."]
                 ELSE IF ~git_read_ok
                      THEN [status |-> "error", message |-> "Failed to analyze language"]
                      ELSE MessageLanguageReport(iter_commits(current_repo_path, limit))
    /\ UNCHANGED <<clock, git_history, process, store, fixes, history, callers>>

\* compare_message_vs_diff: its own list of minimizing words
minimizing_words == {"quick", "small", "minor", "tiny", "little", "just"}

\* is_large_change with the boundary included
is_large_change_inclusive(lines) == lines >= 100

\* is_large_change = lines > 100
is_large_change(lines) == lines > 100

\* the entries one commit appends to mismatches, in order
CommitMismatches(commit) ==
    LET msg == lower(FirstLine(commit.message))
        is_minimizing == ContainsAny(minimizing_words, msg)
        is_vague == ContainsAny(vague_words, msg) /\ WordCount(msg) < 5
    IN  (IF is_minimizing /\ is_large_change(commit.lines)
         THEN << [type |-> "downplaying", sha |-> commit.sha,
                  lines_changed |-> commit.lines] >>
         ELSE <<>>)
        \o
        (IF is_vague /\ commit.lines > 50
         THEN << [type |-> "vague_on_significant", sha |-> commit.sha,
                  lines_changed |-> commit.lines] >>
         ELSE <<>>)

\* for commit in commits: ... mismatches.append(...)
RECURSIVE Mismatches(_)
Mismatches(commit_window) ==
    IF commit_window = <<>> THEN <<>>
    ELSE CommitMismatches(Head(commit_window)) \o Mismatches(Tail(commit_window))

\* the report of compare_message_vs_diff over a window
MessageVsDiffReport(commit_window) ==
    LET mismatches == Mismatches(commit_window)
        of_type(type) == {i \in 1..Len(mismatches) : mismatches[i].type = type}
    IN  [status |-> "success",
         total_commits_analyzed |-> Len(commit_window),
         mismatches_found |-> Len(mismatches),
         mismatches |-> mismatches,
         patterns |->
             [frequently_downplays |-> Cardinality(of_type("downplaying")) > 3,
              avoids_specificity |-> Cardinality(of_type("vague_on_significant")) > 3]]

compare_message_vs_diff(limit, git_read_ok) ==
    /\ Invoke
    /\ call' = [op |-> "compare_message_vs_diff", limit |-> limit,
                git_read_ok |-> git_read_ok]
    /\ result' = IF NoRepositorySet
                 THEN [status |-> "error",
                       message |-> "No repository set. Call set_repository() first."]
                 ELSE IF ~git_read_ok
                      THEN [status |-> "error", message |-> "Failed to compare messages"]
                      ELSE MessageVsDiffReport(iter_commits(current_repo_path, limit))
    /\ UNCHANGED <<clock, git_history, process, store, fixes, history, callers>>

\* [c for c in repo.iter_commits('HEAD') if c.committed_datetime > since_date]
CommitsSince(repo_path, days) ==
    SelectSeq(git_history[repo_path], LAMBDA c : c.days_ago < days)

\* the report of get_temporal_patterns over the commits of the lookback
\* window; the empty window returns before any figure is computed
TemporalReport(commit_window, days) ==
    LET n == Len(commit_window)
        hours == {commit_window[i].hour : i \in 1..n}
        weekdays == {commit_window[i].weekday : i \in 1..n}
        by_hour == [h \in hours |->
                       Cardinality({i \in 1..n : commit_window[i].hour = h})]
        by_day_of_week == [d \in weekdays |->
                              Cardinality({i \in 1..n : commit_window[i].weekday = d})]
        night_commits == Cardinality({i \in 1..n : \/ commit_window[i].hour >= 22
                                                   \/ commit_window[i].hour < 6})
        weekend_commits ==
            Cardinality({i \in 1..n : commit_window[i].weekday \in {"Saturday", "Sunday"}})
    IN  IF commit_window = <<>>
        THEN [status |-> "success",
              message |-> "No commits found in last " \o ToString(days) \o " days"]
        ELSE [status |-> "success",
              period_days |-> days,
              total_commits |-> n,
              commits_by_hour |-> by_hour,
              commits_by_day |-> by_day_of_week,
              night_commits |-> night_commits,
              weekend_commits |-> weekend_commits,
              patterns |->
                  [works_late_nights |-> 4 * night_commits > n,
                   works_weekends |-> 4 * weekend_commits > n,
                   consistent_schedule |-> Cardinality(hours) < 8]]

get_temporal_patterns(days, git_read_ok) ==
    /\ Invoke
    /\ call' = [op |-> "get_temporal_patterns", days |-> days,
                git_read_ok |-> git_read_ok]
    /\ result' = IF NoRepositorySet
                 THEN [status |-> "error",
                       message |-> "No repository set. Call set_repository() first."]
                 ELSE IF ~git_read_ok
                      THEN [status |-> "error",
                            message |-> "Failed to analyze temporal patterns"]
                      ELSE TemporalReport(CommitsSince(current_repo_path, days), days)
    /\ UNCHANGED <<clock, git_history, process, store, fixes, history, callers>>

\* a commit is made in a repository on disk, outside the server
git_commit(repo_path, commit) ==
    /\ Len(git_history[repo_path]) < MaxCommits
    /\ git_history' = [git_history EXCEPT ![repo_path] = <<commit>> \o @]
    /\ call' = [op |-> "git_commit"]
    /\ result' = [status |-> "none"]
    /\ UNCHANGED <<clock, process, store, fixes, history, ops, callers>>

-----------------------------------------------------------------------------
(* server.py: session tools *)

\* a session id that names a row of scan_sessions, or the first one that does not
SessionIds == 1 .. (Len(scan_sessions) + 1)

\* start_session
start_session(repo_path) ==
    /\ Invoke
    /\ call' = [op |-> "start_session", repo_path |-> repo_path]
    /\ IF ~PathExists(repo_path) \/ ~HasGitDir(repo_path)
       THEN /\ result' = [status |-> "error",
                          message |-> IF ~PathExists(repo_path)
                                      THEN "Repository path does not exist"
                                      ELSE "Not a git repository"]
            /\ UNCHANGED store
       ELSE LET first == get_scan_history_first(scan_sessions, repo_path)
            IN  \E h \in (IF first = {} THEN {0} ELSE first) :
                    IF h # 0 /\ scan_sessions[h].completed_at = NULL
                    THEN /\ result' = [status |-> "warning",
                                       existing_session_id |-> h]
                         /\ UNCHANGED store
                    ELSE /\ scan_sessions' = create_scan_session(scan_sessions, repo_path, clock)
                         /\ result' = [status |-> "success",
                                       session_id |-> Len(scan_sessions) + 1,
                                       repo_path |-> repo_path]
                         /\ UNCHANGED <<repositories, issue_flags, security_issues,
                                        git_patterns, behavioral_patterns, recurring_issues>>
    /\ UNCHANGED <<clock, git_history, process, fixes, history, callers>>

\* close_session; the call record notes whether the call closes the session
\* that the start_session call before it warned about
close_session(session_id) ==
    /\ Invoke
    /\ call' = [op |-> "close_session", session_id |-> session_id,
                after_warning |-> /\ call.op = "start_session"
                                  /\ result.status = "warning"
                                  /\ result.existing_session_id = session_id]
    /\ scan_sessions' = complete_scan_session(scan_sessions, session_id, 0, 0, clock)
    /\ result' = [status |-> "success", session_id |-> session_id]
    /\ UNCHANGED <<repositories, issue_flags, security_issues,
                   git_patterns, behavioral_patterns, recurring_issues>>
    /\ UNCHANGED <<clock, git_history, process, fixes, history, callers>>

\* the evidence text submit_discovery_answers builds
DiscoveryEvidence(rating, potential, reasoning) ==
    "User rated code quality: " \o ToString(rating) \o "/10. Potential: "
        \o potential \o ". Concerns: " \o reasoning

\* submit_discovery_answers
submit_discovery_answers(session_id, rating, potential, reasoning) ==
    /\ Invoke
    /\ call' = [op |-> "submit_discovery_answers", session_id |-> session_id,
                evidence |-> DiscoveryEvidence(rating, potential, reasoning)]
    /\ behavioral_patterns' =
           flag_behavioral_pattern_db(behavioral_patterns, session_id,
               "user_self_assessment",
               DiscoveryEvidence(rating, potential, reasoning), "info", clock)
    /\ result' = [status |-> "success", session_id |-> session_id]
    /\ discovery_calls' =
           [s \in DOMAIN discovery_calls \cup {session_id} |->
               IF s = session_id
               THEN (IF s \in DOMAIN discovery_calls THEN discovery_calls[s] ELSE 0) + 1
               ELSE discovery_calls[s]]
    /\ UNCHANGED <<repositories, issue_flags, scan_sessions, security_issues,
                   git_patterns, recurring_issues>>
    /\ UNCHANGED <<clock, git_history, process, fixes, flag_calls, ingested,
                   fix_calls, restarts, callers>>

\* flag_behavioral_pattern (the tool)
flag_behavioral_pattern(session_id, pattern_name, evidence, severity) ==
    /\ Invoke
    /\ call' = [op |-> "flag_behavioral_pattern", session_id |-> session_id,
                pattern_name |-> pattern_name, evidence |-> evidence]
    /\ LET flagged == flag_behavioral_pattern_db(behavioral_patterns, session_id,
                          pattern_name, evidence, severity, clock)
           rows == PatternRows(flagged, session_id, pattern_name)
       IN  /\ behavioral_patterns' = flagged
           /\ result' = [status |-> "success",
                         session_id |-> session_id,
                         pattern_name |-> pattern_name,
                         occurrence_count |->
                             IF rows # {} THEN flagged[Min(rows)].occurrence_count ELSE 1]
    /\ UNCHANGED <<repositories, issue_flags, scan_sessions, security_issues,
                   git_patterns, recurring_issues>>
    /\ UNCHANGED <<clock, git_history, process, fixes, history, callers>>

\* dict.get(key, default)
Get(d, key, default) == IF key \in DOMAIN d THEN d[key] ELSE default

\* a slice that takes the whole sequence
Truncate_whole(text, n) == text

\* summary[:100], commits[:10]
Truncate(text, n) == IF Len(text) <= n THEN text ELSE SubSeq(text, 1, n)

\* a signature built from the whole summary
issue_signature_untruncated(issue) ==
    Get(issue, "category", "uncategorized") \o ":" \o Get(issue, "summary", "")

\* save_scan_results: the signature of a finding
issue_signature(issue) ==
    Get(issue, "category", "uncategorized") \o ":"
        \o Truncate(Get(issue, "summary", ""), SignaturePrefixLen)

\* save_scan_results: one git-pattern row per flag that is true
RECURSIVE SaveDetectedPatterns(_, _, _)
SaveDetectedPatterns(patterns, session_id, flags) ==
    IF flags = <<>>
    THEN patterns
    ELSE SaveDetectedPatterns(
             IF Head(flags)[2]
             THEN save_git_pattern(patterns, session_id, Head(flags)[1], "")
             ELSE patterns,
             session_id, Tail(flags))

\* save_scan_results: one notable_commit row per commit of commits[:10]
RECURSIVE SaveNotableCommits(_, _, _)
SaveNotableCommits(patterns, session_id, commits) ==
    IF commits = <<>>
    THEN patterns
    ELSE SaveNotableCommits(
             save_git_pattern(patterns, session_id, "notable_commit",
                              Get(Head(commits), "sha", "")),
             session_id, Tail(commits))

\* save_scan_results: the loop over security_data['issues']; acc holds
\* security_issues, recurring_issues and total_issues
RECURSIVE SaveIssues(_, _, _, _, _)
SaveIssues(acc, sessions, session_id, issues, now) ==
    IF issues = <<>>
    THEN acc
    ELSE LET issue == Head(issues)
             saved == save_security_issue(acc.security_issues, session_id,
                          Get(issue, "severity", "unknown"),
                          Get(issue, "category", "uncategorized"),
                          Get(issue, "summary", ""))
             tracked == IF session_id \in DOMAIN sessions
                        THEN track_recurring_issue(acc.recurring_issues,
                                 sessions[session_id].repo_path,
                                 issue_signature(issue), now)
                        ELSE [ok |-> TRUE, rows |-> acc.recurring_issues]
         IN  IF tracked.ok
             THEN SaveIssues([security_issues |-> saved,
                              recurring_issues |-> tracked.rows,
                              total_issues |-> acc.total_issues + 1,
                              ok |-> TRUE],
                             sessions, session_id, Tail(issues), now)
             ELSE [security_issues |-> saved,
                   recurring_issues |-> acc.recurring_issues,
                   total_issues |-> acc.total_issues + 1,
                   ok |-> FALSE]

\* save_scan_results
save_scan_results(session_id, git_analysis, security_analysis, duration_ms) ==
    /\ Invoke
    /\ call' = [op |-> "save_scan_results", session_id |-> session_id,
                git_analysis |-> git_analysis,
                security_analysis |-> security_analysis]
    /\ IF ~git_analysis.json
       THEN /\ result' = [status |-> "error",
                          message |-> "Failed to save scan results"]
            /\ UNCHANGED store
       ELSE LET flagged == SaveDetectedPatterns(git_patterns, session_id,
                                                git_analysis.patterns)
                noted == SaveNotableCommits(flagged, session_id,
                             Truncate(git_analysis.commits, NotableCommitLimit))
            IN  /\ git_patterns' = noted
                /\ IF ~security_analysis.json
                   THEN /\ result' = [status |-> "error",
                                      message |-> "Failed to save scan results"]
                        /\ UNCHANGED <<scan_sessions, security_issues, recurring_issues>>
                   ELSE LET done == SaveIssues(
                                        [security_issues |-> security_issues,
                                         recurring_issues |-> recurring_issues,
                                         total_issues |-> 0,
                                         ok |-> TRUE],
                                        scan_sessions, session_id,
                                        security_analysis.issues, clock)
                        IN  /\ security_issues' = done.security_issues
                            /\ recurring_issues' = done.recurring_issues
                            /\ IF done.ok
                               THEN /\ scan_sessions' =
                                           complete_scan_session(scan_sessions, session_id,
                                               done.total_issues, duration_ms, clock)
                                    /\ result' = [status |-> "success",
                                                  session_id |-> session_id,
                                                  total_git_patterns |->
                                                      Len(git_analysis.patterns),
                                                  total_security_issues |->
                                                      done.total_issues,
                                                  scan_duration_ms |-> duration_ms]
                               ELSE /\ result' = [status |-> "error",
                                                  message |-> "Failed to save scan results"]
                                    /\ UNCHANGED scan_sessions
                /\ UNCHANGED <<repositories, issue_flags, behavioral_patterns>>
    /\ ingested' =
           IF /\ git_analysis.json
              /\ security_analysis.json
              /\ session_id \in DOMAIN scan_sessions
           THEN [k \in FindingKeys |->
                    ingested[k] + Cardinality(
                        {n \in DOMAIN security_analysis.issues :
                            k = <<scan_sessions[session_id].repo_path,
                                  SameFindingKey(security_analysis.issues[n])>>})]
           ELSE ingested
    /\ UNCHANGED <<clock, git_history, process, fixes, flag_calls, fix_calls, discovery_calls, restarts, callers>>

-----------------------------------------------------------------------------
(* server.py, database.py: queries *)

\* ORDER BY at DESC LIMIT n over the rows S, at[i] being the timestamp of
\* row i: the sets of rows the query may return (rows with equal timestamps
\* come in no defined order)
Newest(S, at, n) ==
    {shown \in SUBSET S :
        /\ Cardinality(shown) = (IF Cardinality(S) <= n THEN Cardinality(S) ELSE n)
        /\ \A i \in shown, j \in S \ shown : at[j] <= at[i]}

\* get_scan_history (the tool, limit left at its default)
get_scan_history(repo_path) ==
    /\ Invoke
    /\ call' = [op |-> "get_scan_history", repo_path |-> repo_path]
    /\ LET rows == {i \in DOMAIN scan_sessions : scan_sessions[i].repo_path = repo_path}
           started == [i \in rows |-> scan_sessions[i].started_at]
       IN  \E shown \in Newest(rows, started, ScanHistoryLimit) :
               result' = IF shown = {}
                         THEN [status |-> "success", scans |-> {}]
                         ELSE [status |-> "success",
                               repo_path |-> repo_path,
                               total_scans |-> Cardinality(shown),
                               scans |-> shown]
    /\ UNCHANGED <<clock, git_history, process, store, fixes, history, callers>>

\* query_recurring_issues (the tool, without category filter)
query_recurring_issues(repo_path) ==
    /\ Invoke
    /\ call' = [op |-> "query_recurring_issues", repo_path |-> repo_path]
    /\ LET rows == {i \in DOMAIN recurring_issues :
                       recurring_issues[i].repo_path = repo_path}
       IN  result' = IF rows = {}
                     THEN [status |-> "success", recurring_issues |-> {}]
                     ELSE [status |-> "success",
                           repo_path |-> repo_path,
                           total_recurring_issues |-> Cardinality(rows),
                           recurring_issues |-> {recurring_issues[i] : i \in rows}]
    /\ UNCHANGED <<clock, git_history, process, store, fixes, history, callers>>

\* the characters of the stored texts in the order of their codes, which is
\* the order of SQLite's BINARY collation
CodeOrder == "0123456789:ABCDEFGHIJKLMNOPQRSTUVWXYZ_abcdefghijklmnopqrstuvwxyz"

CharCode(c) == CHOOSE n \in 1..Len(CodeOrder) : SubSeq(CodeOrder, n, n) = c

\* a < b for two TEXT values: the first character that differs decides, a
\* proper prefix is smaller
RECURSIVE TextLess(_, _)
TextLess(a, b) ==
    IF b = "" THEN FALSE
    ELSE IF a = "" THEN TRUE
    ELSE IF SubSeq(a, 1, 1) = SubSeq(b, 1, 1)
         THEN TextLess(SubSeq(a, 2, Len(a)), SubSeq(b, 2, Len(b)))
         ELSE CharCode(SubSeq(a, 1, 1)) < CharCode(SubSeq(b, 1, 1))

\* ORDER BY severity DESC over the rows ids: every order of the rows in
\* which no row comes before one of greater severity text; rows of equal text
\* come in no defined order
OrderBySeverityDesc(issues, ids) ==
    {order \in [1..Cardinality(ids) -> ids] :
        /\ \A i, j \in DOMAIN order : i # j => order[i] # order[j]
        /\ \A i, j \in DOMAIN order :
               i < j => ~TextLess(issues[order[i]].severity, issues[order[j]].severity)}

\* database.py get_session_details; it returns a dict, {} for no session,
\* and is no tool, so its result carries no tool status
get_session_details(session_id) ==
    /\ Invoke
    /\ call' = [op |-> "get_session_details", session_id |-> session_id]
    /\ \E listed \in OrderBySeverityDesc(security_issues,
                          {i \in DOMAIN security_issues :
                              security_issues[i].session_id = session_id}) :
         result' =
           IF session_id \notin DOMAIN scan_sessions
           THEN [status |-> "returned", session |-> NULL]
           ELSE [status |-> "returned",
                 session |-> session_id,
                 security_issues |-> listed,
                 git_patterns |-> {i \in DOMAIN git_patterns :
                                      git_patterns[i].session_id = session_id},
                 behavioral_patterns |-> {i \in DOMAIN behavioral_patterns :
                                             behavioral_patterns[i].session_id = session_id}]
    /\ UNCHANGED <<clock, git_history, process, store, fixes, history, callers>>

\* an id that names a row of security_issues, or the first one that does not
IssueIds == 1 .. (Len(security_issues) + 1)

\* generate_fix_prompt: the issue is looked up through a JOIN with its session
generate_fix_prompt(issue_id) ==
    /\ Invoke
    /\ call' = [op |-> "generate_fix_prompt", issue_id |-> issue_id]
    /\ IF \/ issue_id \notin DOMAIN security_issues
          \/ security_issues[issue_id].session_id \notin DOMAIN scan_sessions
       THEN result' = [status |-> "error", message |-> "Security issue ID not found"]
       ELSE LET rows == {i \in DOMAIN fix_attempts_roasting :
                            fix_attempts_roasting[i].issue_id = issue_id}
                attempted == [i \in rows |-> fix_attempts_roasting[i].attempted_at]
            IN  \E shown \in Newest(rows, attempted, FixPromptAttemptLimit) :
                    result' = [status |-> "success",
                               issue_id |-> issue_id,
                               severity |-> security_issues[issue_id].severity,
                               category |-> security_issues[issue_id].category,
                               attempts |-> Cardinality(shown)]
    /\ UNCHANGED <<clock, git_history, process, store, fixes, history, callers>>

-----------------------------------------------------------------------------
NextSession ==
    \/ Tick
    \/ \E repo_path \in AllPaths : start_session(repo_path)
    \/ \E session_id \in SessionIds : close_session(session_id)
    \/ \E session_id \in SessionIds, rating \in Ratings :
           submit_discovery_answers(session_id, rating, "fast", "none")
    \/ \E session_id \in SessionIds, git_analysis \in GitPayloads,
          security_analysis \in SecurityPayloads, duration_ms \in Durations :
           save_scan_results(session_id, git_analysis, security_analysis, duration_ms)

SpecSession == InitSession /\ [][NextSession]_vars

\* the tools that open a session and ingest scan results into it
NextIngest ==
    \/ Tick
    \/ \E repo_path \in AllPaths : start_session(repo_path)
    \/ \E session_id \in SessionIds, git_analysis \in GitPayloads,
          security_analysis \in IngestPayloads, duration_ms \in Durations :
           save_scan_results(session_id, git_analysis, security_analysis, duration_ms)

SpecIngest == InitIngest /\ [][NextIngest]_vars

-----------------------------------------------------------------------------
(* Tool calls during which a statement on the store raises (sqlite3 raises *)
(* OperationalError when the database file is locked by another process or *)
(* cannot be written).  get_db rolls the failing call's transaction back;  *)
(* what the tool returns depends on whether the statement is inside its    *)
(* try block.                                                              *)

\* the tools whose store statements all run inside try ... except Exception
CaughtTools ==
    {"get_repo_context", "flag_repo_issue", "save_fix_attempt_tool"}
        \cup {"start_session", "close_session", "submit_discovery_answers"}
        \cup {"flag_behavioral_pattern", "get_scan_history"}
        \cup {"query_recurring_issues", "generate_fix_prompt"}

\* the tools that return before any store statement while no repository is set
RepositoryTools == {"get_repo_context", "flag_repo_issue", "save_fix_attempt_tool"}

\* set_repository when db.get_or_create_repo raises: the call stands before
\* the try block, after the assignment of _current_repo_path
set_repository_store_failure(repo_path) ==
    /\ Invoke
    /\ PathExists(repo_path) /\ HasGitDir(repo_path)
    /\ call' = [op |-> "set_repository", repo_path |-> repo_path]
    /\ current_repo_path' = repo_path
    /\ result' = [status |-> "uncaught", exception |-> "sqlite3.OperationalError"]
    /\ UNCHANGED <<clock, git_history, current_repo_id, store, fixes, history, callers>>

\* a tool of CaughtTools when its first store statement raises
tool_store_failure(op) ==
    /\ Invoke
    /\ op \in RepositoryTools => current_repo_id # NoRepoId
    /\ call' = [op |-> op]
    /\ result' = [status |-> "error", message |-> "Failed: database is locked"]
    /\ UNCHANGED <<clock, git_history, process, store, fixes, history, callers>>

\* save_scan_results when db.complete_scan_session raises: the rows written
\* by the earlier statements of the call were committed one by one
save_scan_results_store_failure(session_id, git_analysis, security_analysis) ==
    /\ Invoke
    /\ git_analysis.json /\ security_analysis.json
    /\ call' = [op |-> "save_scan_results", session_id |-> session_id,
                git_analysis |-> git_analysis,
                security_analysis |-> security_analysis]
    /\ LET flagged == SaveDetectedPatterns(git_patterns, session_id,
                                           git_analysis.patterns)
           noted == SaveNotableCommits(flagged, session_id,
                        Truncate(git_analysis.commits, NotableCommitLimit))
           done == SaveIssues([security_issues |-> security_issues,
                               recurring_issues |-> recurring_issues,
                               total_issues |-> 0,
                               ok |-> TRUE],
                              scan_sessions, session_id,
                              security_analysis.issues, clock)
       IN  /\ git_patterns' = noted
           /\ security_issues' = done.security_issues
           /\ recurring_issues' = done.recurring_issues
    /\ result' = [status |-> "error", message |-> "Failed to save scan results"]
    /\ ingested' =
           IF session_id \in DOMAIN scan_sessions
           THEN [k \in FindingKeys |->
                    ingested[k] + Cardinality(
                        {n \in DOMAIN security_analysis.issues :
                            k = <<scan_sessions[session_id].repo_path,
                                  SameFindingKey(security_analysis.issues[n])>>})]
           ELSE ingested
    /\ UNCHANGED <<repositories, issue_flags, scan_sessions, behavioral_patterns>>
    /\ UNCHANGED <<clock, git_history, process, fixes, flag_calls, fix_calls, discovery_calls, restarts, callers>>

\* tool calls, some of which meet a failing store
NextFault ==
    \/ Tick
    \/ \E repo_path \in AllPaths, git_read_ok \in BOOLEAN :
           set_repository(repo_path, git_read_ok)
    \/ \E repo_path \in AllPaths : start_session(repo_path)
    \/ \E repo_path \in ValidRepos : set_repository_store_failure(repo_path)
    \/ \E op \in CaughtTools : tool_store_failure(op)
    \/ \E session_id \in SessionIds, git_analysis \in GitPayloads,
          security_analysis \in SecurityPayloads :
           save_scan_results_store_failure(session_id, git_analysis, security_analysis)

SpecFault == InitFault /\ [][NextFault]_vars

\* the tools that work on the current repository, and restarts of the server
NextScoped ==
    \/ Tick
    \/ \E repo_path \in AllPaths, git_read_ok \in BOOLEAN :
           set_repository(repo_path, git_read_ok)
    \/ restart
    \/ \E git_read_ok \in BOOLEAN : analyze_commit_patterns(DefaultLimit, git_read_ok)
    \/ \E git_read_ok \in BOOLEAN : analyze_message_language(DefaultLimit, git_read_ok)
    \/ \E git_read_ok \in BOOLEAN : compare_message_vs_diff(DefaultLimit, git_read_ok)
    \/ \E git_read_ok \in BOOLEAN : get_temporal_patterns(DefaultDays, git_read_ok)
    \/ \E git_read_ok \in BOOLEAN : get_project_summary(git_read_ok)
    \/ get_repo_context
    \/ \E issue_type \in IssueTypes, severity \in Severities, notes \in Notes :
           flag_repo_issue(issue_type, severity, notes)
    \/ \E issue_type \in IssueTypes, fix_description \in FixDescriptions,
          outcome \in Outcomes :
           save_fix_attempt_tool(issue_type, fix_description, outcome)

SpecScoped == InitScoped /\ [][NextScoped]_vars

\* one repository on disk that receives commits, and the four detectors
NextDetect ==
    \/ \E commit \in NewCommits : git_commit("/r1", commit)
    \/ set_repository("/r1", TRUE)
    \/ \E limit \in Limits, git_read_ok \in BOOLEAN :
           analyze_commit_patterns(limit, git_read_ok)
    \/ \E limit \in Limits, git_read_ok \in BOOLEAN :
           analyze_message_language(limit, git_read_ok)
    \/ \E limit \in Limits, git_read_ok \in BOOLEAN :
           compare_message_vs_diff(limit, git_read_ok)
    \/ \E days \in Days, git_read_ok \in BOOLEAN :
           get_temporal_patterns(days, git_read_ok)

SpecDetect == InitDetect /\ [][NextDetect]_vars

\* the repository tools across restarts of the server process
NextRestart ==
    \/ Tick
    \/ \E repo_path \in ValidRepos : set_repository(repo_path, TRUE)
    \/ restart
    \/ get_repo_context
    \/ \E issue_type \in IssueTypes, severity \in Severities, notes \in Notes :
           flag_repo_issue(issue_type, severity, notes)

SpecRestart == InitRestart /\ [][NextRestart]_vars

\* sessions and their discovery answers, with other patterns flagged between
NextDiscovery ==
    \/ Tick
    \/ \E repo_path \in ValidRepos : start_session(repo_path)
    \/ \E session_id \in SessionIds, rating \in Ratings :
           submit_discovery_answers(session_id, rating, "fast", "none")
    \/ \E session_id \in SessionIds :
           flag_behavioral_pattern(session_id, "minimizing_language",
                                   "seen in log", "medium")

SpecDiscovery == InitDiscovery /\ [][NextDiscovery]_vars

\* sessions and the reports saved for them
NextScan ==
    \/ Tick
    \/ \E repo_path \in ValidRepos : start_session(repo_path)
    \/ \E session_id \in SessionIds, git_analysis \in ScanGitPayloads,
          security_analysis \in IngestPayloads, duration_ms \in Durations :
           save_scan_results(session_id, git_analysis, security_analysis, duration_ms)

SpecScan == InitScan /\ [][NextScan]_vars

\* scans whose findings carry colons
NextSignature ==
    \/ Tick
    \/ \E repo_path \in ValidRepos : start_session(repo_path)
    \/ \E session_id \in SessionIds, git_analysis \in GitPayloads,
          security_analysis \in SignaturePayloads, duration_ms \in Durations :
           save_scan_results(session_id, git_analysis, security_analysis, duration_ms)

SpecSignature == InitSignature /\ [][NextSignature]_vars

\* the keyed records of two repositories and their sessions
NextIsolation ==
    \/ Tick
    \/ \E repo_path \in ValidRepos : set_repository(repo_path, TRUE)
    \/ \E issue_type \in IssueTypes : flag_repo_issue(issue_type, 8, "note-a")
    \/ \E repo_path \in ValidRepos : start_session(repo_path)
    \/ \E session_id \in SessionIds, pattern_name \in PatternNames :
           flag_behavioral_pattern(session_id, pattern_name, "seen in log", "medium")
    \/ \E session_id \in SessionIds, duration_ms \in Durations :
           \/ save_scan_results(session_id, [json |-> TRUE, patterns |-> <<>>, commits |-> <<>>],
                                [json |-> TRUE, issues |-> <<FindingA>>], duration_ms)
           \/ save_scan_results(session_id, [json |-> TRUE, patterns |-> <<>>, commits |-> <<>>],
                                [json |-> TRUE, issues |-> <<FindingA, FindingB>>],
                                duration_ms)

SpecIsolation == InitIsolation /\ [][NextIsolation]_vars

\* sessions opened, saved and closed one call at a time
NextLifecycle ==
    \/ Tick
    \/ \E repo_path \in ValidRepos : start_session(repo_path)
    \/ \E session_id \in SessionIds : close_session(session_id)
    \/ \E session_id \in SessionIds, git_analysis \in GitPayloads,
          duration_ms \in Durations :
           save_scan_results(session_id, git_analysis,
                             [json |-> TRUE, issues |-> <<FindingA, FindingB>>],
                             duration_ms)

SpecLifecycle == InitLifecycle /\ [][NextLifecycle]_vars

\* the sessions of one repository, started and closed one call at a time
NextReopen ==
    \/ Tick
    \/ start_session("/r1")
    \/ \E session_id \in SessionIds : close_session(session_id)

SpecReopen == InitReopen /\ [][NextReopen]_vars

\* the session tools and the queries
NextQuery ==
    \/ Tick
    \/ \E repo_path \in ValidRepos, git_read_ok \in BOOLEAN :
           set_repository(repo_path, git_read_ok)
    \/ get_repo_context
    \/ \E repo_path \in AllPaths : start_session(repo_path)
    \/ \E session_id \in SessionIds : close_session(session_id)
    \/ \E session_id \in SessionIds, rating \in Ratings :
           submit_discovery_answers(session_id, rating, "fast", "none")
    \/ \E session_id \in SessionIds, git_analysis \in GitPayloads,
          security_analysis \in SecurityPayloads, duration_ms \in Durations :
           save_scan_results(session_id, git_analysis, security_analysis, duration_ms)
    \/ \E repo_path \in AllPaths : get_scan_history(repo_path)
    \/ \E repo_path \in AllPaths : query_recurring_issues(repo_path)
    \/ \E session_id \in SessionIds : get_session_details(session_id)
    \/ \E issue_id \in IssueIds : generate_fix_prompt(issue_id)

SpecQuery == InitQuery /\ [][NextQuery]_vars

NextFlag ==
    \/ Tick
    \/ \E repo_path \in AllPaths, git_read_ok \in BOOLEAN :
           set_repository(repo_path, git_read_ok)
    \/ get_repo_context
    \/ \E issue_type \in IssueTypes, severity \in Severities, notes \in Notes :
           flag_repo_issue(issue_type, severity, notes)
    \/ \E issue_type \in IssueTypes, fix_description \in FixDescriptions,
          outcome \in Outcomes :
           save_fix_attempt_tool(issue_type, fix_description, outcome)

SpecFlag == InitFlag /\ [][NextFlag]_vars

\* every tool of the server that writes to the store, one call at a time
Next ==
    \/ Tick
    \/ \E repo_path \in AllPaths, git_read_ok \in BOOLEAN :
           set_repository(repo_path, git_read_ok)
    \/ get_repo_context
    \/ \E issue_type \in IssueTypes, severity \in Severities, notes \in Notes :
           flag_repo_issue(issue_type, severity, notes)
    \/ \E issue_type \in IssueTypes, fix_description \in FixDescriptions,
          outcome \in Outcomes :
           save_fix_attempt_tool(issue_type, fix_description, outcome)
    \/ \E repo_path \in AllPaths : start_session(repo_path)
    \/ \E session_id \in SessionIds : close_session(session_id)
    \/ \E session_id \in SessionIds, rating \in Ratings :
           submit_discovery_answers(session_id, rating, "fast", "none")
    \/ \E session_id \in SessionIds, pattern_name \in PatternNames :
           flag_behavioral_pattern(session_id, pattern_name, "seen in log", "medium")
    \/ \E session_id \in SessionIds, git_analysis \in GitPayloads,
          security_analysis \in SecurityPayloads, duration_ms \in Durations :
           save_scan_results(session_id, git_analysis, security_analysis, duration_ms)

Spec == Init /\ [][Next]_vars

-----------------------------------------------------------------------------
(* Callers that run the upserts of database.py concurrently (server        *)
(* processes sharing the database file).  get_db opens a connection per    *)
(* call; sqlite3 runs the SELECT outside any transaction and opens the     *)
(* transaction at the INSERT or UPDATE, which get_db commits on exit.  So  *)
(* a call is two steps, and another caller's steps may fall in between.    *)

Returned(key, how) ==
    [returned EXCEPT ![key] =
        IF how = "ok" THEN [@ EXCEPT !.ok = @ + 1] ELSE [@ EXCEPT !.raised = @ + 1]]

\* flag_issue up to and including the SELECT
flag_issue_begin(c, repo_id, issue_type, severity, notes) ==
    /\ pc[c] = "idle"
    /\ Invoke
    /\ pc' = [pc EXCEPT ![c] = "flag_issue"]
    /\ req' = [req EXCEPT ![c] = [op |-> "flag_issue", repo_id |-> repo_id,
                                  issue_type |-> issue_type, severity |-> severity,
                                  notes |-> notes, now |-> clock]]
    /\ found' = [found EXCEPT ![c] = flag_issue_select(issue_flags, repo_id, issue_type)]
    /\ UNCHANGED <<clock, git_history, process, fixes, store, call, result, history, returned>>

\* flag_issue from the UPDATE or INSERT to the commit or rollback
flag_issue_write(c) ==
    /\ pc[c] = "flag_issue"
    /\ LET r == req[c]
           key == <<"issue_flags", r.repo_id, r.issue_type>>
       IN  IF found[c]
           THEN /\ issue_flags' = flag_issue_update(issue_flags, r.repo_id, r.issue_type,
                                                    r.severity, r.notes, r.now)
                /\ returned' = Returned(key, "ok")
           ELSE IF issue_flags_unique_ok(issue_flags, r.repo_id, r.issue_type)
                THEN /\ issue_flags' = flag_issue_insert(issue_flags, r.repo_id,
                                            r.issue_type, r.severity, r.notes, r.now)
                     /\ returned' = Returned(key, "ok")
                ELSE /\ issue_flags' = issue_flags
                     /\ returned' = Returned(key, "raised")
    /\ pc' = [pc EXCEPT ![c] = "idle"]
    /\ UNCHANGED <<repositories, scan_sessions, security_issues, git_patterns,
                   behavioral_patterns, recurring_issues>>
    /\ UNCHANGED <<clock, git_history, process, fixes, call, result, history, ops, req, found>>

\* flag_behavioral_pattern up to and including the SELECT
flag_behavioral_pattern_begin(c, session_id, pattern_name, evidence, severity) ==
    /\ pc[c] = "idle"
    /\ Invoke
    /\ pc' = [pc EXCEPT ![c] = "flag_behavioral_pattern"]
    /\ req' = [req EXCEPT ![c] = [op |-> "flag_behavioral_pattern",
                                  session_id |-> session_id,
                                  pattern_name |-> pattern_name,
                                  evidence |-> evidence, severity |-> severity,
                                  now |-> clock]]
    /\ found' = [found EXCEPT ![c] =
                    flag_behavioral_pattern_select(behavioral_patterns,
                                                   session_id, pattern_name)]
    /\ UNCHANGED <<clock, git_history, process, fixes, store, call, result, history, returned>>

\* flag_behavioral_pattern from the UPDATE or INSERT to the commit
flag_behavioral_pattern_write(c) ==
    /\ pc[c] = "flag_behavioral_pattern"
    /\ LET r == req[c]
       IN  /\ behavioral_patterns' =
                  IF found[c]
                  THEN flag_behavioral_pattern_update(behavioral_patterns, r.session_id,
                           r.pattern_name, r.evidence, r.severity, r.now)
                  ELSE flag_behavioral_pattern_insert(behavioral_patterns, r.session_id,
                           r.pattern_name, r.evidence, r.severity, r.now)
           /\ returned' = Returned(<<"behavioral_patterns", r.session_id, r.pattern_name>>,
                                   "ok")
    /\ pc' = [pc EXCEPT ![c] = "idle"]
    /\ UNCHANGED <<repositories, issue_flags, scan_sessions, security_issues,
                   git_patterns, recurring_issues>>
    /\ UNCHANGED <<clock, git_history, process, fixes, call, result, history, ops, req, found>>

\* track_recurring_issue up to and including the SELECT
track_recurring_issue_begin(c, repo_path, signature) ==
    /\ pc[c] = "idle"
    /\ Invoke
    /\ pc' = [pc EXCEPT ![c] = "track_recurring_issue"]
    /\ req' = [req EXCEPT ![c] = [op |-> "track_recurring_issue",
                                  repo_path |-> repo_path,
                                  issue_signature |-> signature, now |-> clock]]
    /\ found' = [found EXCEPT ![c] =
                    track_recurring_issue_select(recurring_issues, repo_path, signature)]
    /\ UNCHANGED <<clock, git_history, process, fixes, store, call, result, history, returned>>

\* track_recurring_issue from the UPDATE or INSERT to the commit or rollback
track_recurring_issue_write(c) ==
    /\ pc[c] = "track_recurring_issue"
    /\ LET r == req[c]
           key == <<"recurring_issues", r.repo_path, r.issue_signature>>
       IN  IF found[c]
           THEN /\ recurring_issues' = track_recurring_issue_update(recurring_issues,
                                            r.repo_path, r.issue_signature, r.now)
                /\ returned' = Returned(key, "ok")
           ELSE IF recurring_issues_unique_ok(recurring_issues, r.repo_path,
                                              r.issue_signature)
                THEN /\ recurring_issues' = track_recurring_issue_insert(recurring_issues,
                                                 r.repo_path, r.issue_signature, r.now)
                     /\ returned' = Returned(key, "ok")
                ELSE /\ recurring_issues' = recurring_issues
                     /\ returned' = Returned(key, "raised")
    /\ pc' = [pc EXCEPT ![c] = "idle"]
    /\ UNCHANGED <<repositories, issue_flags, scan_sessions, security_issues,
                   git_patterns, behavioral_patterns>>
    /\ UNCHANGED <<clock, git_history, process, fixes, call, result, history, ops, req, found>>

\* start_session up to and including the get_scan_history lookup, for a
\* path that is a git repository; found is whether the row the lookup
\* returned has no completion timestamp
start_session_begin(c, repo_path) ==
    /\ pc[c] = "idle"
    /\ Invoke
    /\ PathExists(repo_path) /\ HasGitDir(repo_path)
    /\ pc' = [pc EXCEPT ![c] = "start_session"]
    /\ LET first == get_scan_history_first(scan_sessions, repo_path)
       IN  \E h \in (IF first = {} THEN {0} ELSE first) :
               /\ req' = [req EXCEPT ![c] = [op |-> "start_session",
                                             repo_path |-> repo_path,
                                             existing_session_id |-> h]]
               /\ found' = [found EXCEPT ![c] =
                               h # 0 /\ scan_sessions[h].completed_at = NULL]
    /\ UNCHANGED <<clock, git_history, process, fixes, store, call, result, history, returned>>

\* start_session from the branch on the lookup to the return: the warning,
\* or create_scan_session and the new id
start_session_write(c) ==
    /\ pc[c] = "start_session"
    /\ IF found[c]
       THEN /\ req' = [req EXCEPT ![c] = [op |-> "start_session",
                                          repo_path |-> req[c].repo_path,
                                          status |-> "warning",
                                          session_id |-> req[c].existing_session_id]]
            /\ UNCHANGED scan_sessions
       ELSE /\ scan_sessions' = create_scan_session(scan_sessions, req[c].repo_path, clock)
            /\ req' = [req EXCEPT ![c] = [op |-> "start_session",
                                          repo_path |-> req[c].repo_path,
                                          status |-> "success",
                                          session_id |-> Len(scan_sessions) + 1]]
    /\ pc' = [pc EXCEPT ![c] = "idle"]
    /\ UNCHANGED <<repositories, issue_flags, security_issues, git_patterns,
                   behavioral_patterns, recurring_issues>>
    /\ UNCHANGED <<clock, git_history, process, fixes, call, result, history, ops,
                   found, returned>>

\* callers that start sessions at the same time
NextConcurrentStart ==
    \/ Tick
    \/ \E c \in Callers, repo_path \in ValidRepos : start_session_begin(c, repo_path)
    \/ \E c \in Callers : start_session_write(c)

SpecConcurrentStart == InitConcurrentStart /\ [][NextConcurrentStart]_vars

NextConcurrent ==
    \/ Tick
    \/ \E c \in Callers, key \in UpsertKeys, notes \in Notes :
           /\ key[1] = "issue_flags"
           /\ flag_issue_begin(c, key[2], key[3], 5, notes)
    \/ \E c \in Callers : flag_issue_write(c)
    \/ \E c \in Callers, key \in UpsertKeys :
           /\ key[1] = "behavioral_patterns"
           /\ flag_behavioral_pattern_begin(c, key[2], key[3], "seen in log", "medium")
    \/ \E c \in Callers : flag_behavioral_pattern_write(c)
    \/ \E c \in Callers, key \in UpsertKeys :
           /\ key[1] = "recurring_issues"
           /\ track_recurring_issue_begin(c, key[2], key[3])
    \/ \E c \in Callers : track_recurring_issue_write(c)

SpecConcurrent == InitConcurrent /\ [][NextConcurrent]_vars

-----------------------------------------------------------------------------
(* Properties *)

OpenSessions(repo_path) ==
    {i \in DOMAIN scan_sessions : /\ scan_sessions[i].repo_path = repo_path
                                  /\ scan_sessions[i].completed_at = NULL}

\* this step is a tool call named op
Called(op) == ops' # ops /\ call'.op = op

\* this step is a flag_repo_issue call that flagged key k
FlagStep(k) ==
    /\ Called("flag_repo_issue")
    /\ result'.status = "success"
    /\ k = <<current_repo_id, call'.issue_type>>

\* C1: after n >= 1 flag_repo_issue calls on a (repository, issue-type) key,
\* whatever calls on other keys came between them, issue_flags holds exactly
\* one row for the key and its occurrence_count is n.
C1_ReflagCounts ==
    \A k \in FlagKeys :
        flag_calls[k] >= 1 =>
            /\ Cardinality(FlagRows(issue_flags, k[1], k[2])) = 1
            /\ \A i \in FlagRows(issue_flags, k[1], k[2]) :
                  issue_flags[i].occurrence_count = flag_calls[k]

\* a key flagged three times, its single row counting 3
C1_Witness ==
    \E k \in FlagKeys :
        /\ flag_calls[k] = 3
        /\ \E i \in FlagRows(issue_flags, k[1], k[2]) :
              issue_flags[i].occurrence_count = 3

\* C2: a flag_repo_issue call leaves the key's single row with the notes and
\* the severity of that call and with the first_detected_at it had before
\* (the time of the first call); no other step changes these fields.
C2_LatestAnnotationOnly ==
    [][\A k \in FlagKeys :
          LET before == FlagRows(issue_flags, k[1], k[2])
              after == FlagRows(issue_flags', k[1], k[2])
          IN  IF FlagStep(k)
              THEN /\ Cardinality(after) = 1
                   /\ \A i \in after :
                         /\ issue_flags'[i].notes = call'.notes
                         /\ issue_flags'[i].severity = call'.severity
                         /\ \A j \in before :
                               issue_flags'[i].first_detected_at
                                   = issue_flags[j].first_detected_at
              ELSE \A j \in before :
                         /\ j \in after
                         /\ issue_flags'[j].notes = issue_flags[j].notes
                         /\ issue_flags'[j].severity = issue_flags[j].severity
                         /\ issue_flags'[j].first_detected_at
                               = issue_flags[j].first_detected_at]_vars

\* a key flagged three times at different times, the last call with note-b
C2_Witness ==
    /\ call.op = "flag_repo_issue"
    /\ call.notes = "note-b"
    /\ result.status = "success"
    /\ \E i \in DOMAIN issue_flags :
          /\ issue_flags[i].repo_id = current_repo_id
          /\ issue_flags[i].issue_type = call.issue_type
          /\ issue_flags[i].occurrence_count = 3
          /\ issue_flags[i].notes = "note-b"
          /\ issue_flags[i].first_detected_at < issue_flags[i].last_detected_at

\* the security_issues rows of repository k[1] that are the finding k[2]
SameFindingRows(k) ==
    {i \in DOMAIN security_issues :
        /\ security_issues[i].session_id \in DOMAIN scan_sessions
        /\ scan_sessions[security_issues[i].session_id].repo_path = k[1]
        /\ SameFindingKey(security_issues[i]) = k[2]}

\* C3: a finding (category, first 100 characters of summary) ingested n >= 1
\* times for a repository, in one session or in several, has exactly one
\* recurring_issues row for (repository, signature), counting n, and a
\* security_issues row for every ingestion.
C3_RecurringRoundTrip ==
    \A k \in FindingKeys :
        ingested[k] >= 1 =>
            LET rows == RecurringRows(recurring_issues, k[1], k[2][1] \o ":" \o k[2][2])
            IN  /\ Cardinality(rows) = 1
                /\ \A i \in rows : recurring_issues[i].occurrence_count = ingested[k]
                /\ Cardinality(SameFindingRows(k)) >= ingested[k]

\* two findings that differ only after the 100th character, ingested in two
\* sessions of one repository: two rows written, one recurring issue counting 2
C3_Witness ==
    \E k \in FindingKeys :
        /\ ingested[k] = 2
        /\ Cardinality(SameFindingRows(k)) = 2
        /\ \E i, j \in SameFindingRows(k) :
              /\ security_issues[i].session_id # security_issues[j].session_id
              /\ security_issues[i].summary # security_issues[j].summary
        /\ \E i \in DOMAIN recurring_issues :
              /\ recurring_issues[i].repo_path = k[1]
              /\ recurring_issues[i].occurrence_count = 2

\* C4: after a successful save_scan_results on a session, the session has a
\* completion timestamp and its total_issues is the number of
\* security_issues rows stored for it.
C4_TotalMatchesStoredIssues ==
    ( /\ call.op = "save_scan_results"
      /\ result.status = "success"
      /\ call.session_id \in DOMAIN scan_sessions )
        => /\ scan_sessions[call.session_id].completed_at # NULL
           /\ scan_sessions[call.session_id].total_issues =
                  Cardinality({i \in DOMAIN security_issues :
                                  security_issues[i].session_id = call.session_id})

\* C5: start_session for a repository that has a session without completion
\* timestamp returns a warning carrying the id of such a session and leaves
\* scan_sessions as it was.
C5_WarnsOnOpenSession ==
    [][( /\ Called("start_session")
         /\ OpenSessions(call'.repo_path) # {} )
          => /\ result'.status = "warning"
             /\ result'.existing_session_id \in OpenSessions(call'.repo_path)
             /\ scan_sessions' = scan_sessions]_vars

\* C6: a completion timestamp that is set is never cleared or changed.
C6_CompletionIsFinal ==
    [][\A i \in DOMAIN scan_sessions :
          scan_sessions[i].completed_at # NULL
              => /\ i \in DOMAIN scan_sessions'
                 /\ scan_sessions'[i].completed_at = scan_sessions[i].completed_at]_vars

\* C7: every repository path has at most one session without completion
\* timestamp.
C7_AtMostOneOpenSession ==
    \A repo_path \in ValidRepos : Cardinality(OpenSessions(repo_path)) <= 1

\* fetchone() of the SELECT by key: the occurrence_count a caller reads
KeyCount(key) ==
    LET rows == IF key[1] = "issue_flags" THEN issue_flags
                ELSE IF key[1] = "behavioral_patterns" THEN behavioral_patterns
                ELSE recurring_issues
        hit == IF key[1] = "issue_flags" THEN FlagRows(issue_flags, key[2], key[3])
               ELSE IF key[1] = "behavioral_patterns"
                    THEN PatternRows(behavioral_patterns, key[2], key[3])
               ELSE RecurringRows(recurring_issues, key[2], key[3])
    IN  IF hit = {} THEN 0 ELSE rows[Min(hit)].occurrence_count

\* C8: no two issue_flags rows share (repo_id, issue_type), no two
\* behavioral_patterns rows share (session_id, pattern_name) and no two
\* recurring_issues rows share (repo_path, issue_signature), also when the
\* callers' lookups and writes interleave.
C8_KeysUnique ==
    /\ \A i, j \in DOMAIN issue_flags :
          ( /\ issue_flags[i].repo_id = issue_flags[j].repo_id
            /\ issue_flags[i].issue_type = issue_flags[j].issue_type ) => i = j
    /\ \A i, j \in DOMAIN behavioral_patterns :
          ( /\ behavioral_patterns[i].session_id = behavioral_patterns[j].session_id
            /\ behavioral_patterns[i].pattern_name = behavioral_patterns[j].pattern_name )
              => i = j
    /\ \A i, j \in DOMAIN recurring_issues :
          ( /\ recurring_issues[i].repo_path = recurring_issues[j].repo_path
            /\ recurring_issues[i].issue_signature = recurring_issues[j].issue_signature )
              => i = j

\* C9: when the concurrent callers have all returned, every upsert call has
\* succeeded and each key's occurrence_count is the number of calls made on it.
C9_AtomicUpsert ==
    (\A c \in Callers : pc[c] = "idle")
        => \A key \in UpsertKeys :
              /\ returned[key].raised = 0
              /\ KeyCount(key) = returned[key].ok + returned[key].raised

\* this step is a tool call that flags behavioral pattern (session_id, pattern_name)
PatternStep(session_id, pattern_name) ==
    \/ /\ Called("flag_behavioral_pattern")
       /\ call'.session_id = session_id
       /\ call'.pattern_name = pattern_name
    \/ /\ Called("submit_discovery_answers")
       /\ call'.session_id = session_id
       /\ pattern_name = "user_self_assessment"

\* the number of track_recurring_issue calls this step makes on a key
TrackCalls(repo_path, signature) ==
    IF /\ Called("save_scan_results")
       /\ result'.status = "success"
       /\ call'.session_id \in DOMAIN scan_sessions
       /\ scan_sessions[call'.session_id].repo_path = repo_path
    THEN Cardinality({n \in DOMAIN call'.security_analysis.issues :
                         issue_signature(call'.security_analysis.issues[n]) = signature})
    ELSE 0

\* C10: in every step each existing issue_flags, behavioral_patterns and
\* recurring_issues row keeps its occurrence_count, except that a flag or
\* track call on the row's key raises it by exactly 1; it is never lowered.
C10_CountsOnlyGrowByOne ==
    [][/\ \A i \in DOMAIN issue_flags :
             /\ i \in DOMAIN issue_flags'
             /\ issue_flags'[i].occurrence_count =
                    issue_flags[i].occurrence_count
                        + (IF FlagStep(<<issue_flags[i].repo_id, issue_flags[i].issue_type>>)
                           THEN 1 ELSE 0)
       /\ \A i \in DOMAIN behavioral_patterns :
             /\ i \in DOMAIN behavioral_patterns'
             /\ behavioral_patterns'[i].occurrence_count =
                    behavioral_patterns[i].occurrence_count
                        + (IF PatternStep(behavioral_patterns[i].session_id,
                                          behavioral_patterns[i].pattern_name)
                           THEN 1 ELSE 0)
       /\ \A i \in DOMAIN recurring_issues :
             /\ i \in DOMAIN recurring_issues'
             /\ recurring_issues'[i].occurrence_count =
                    recurring_issues[i].occurrence_count
                        + TrackCalls(recurring_issues[i].repo_path,
                                     recurring_issues[i].issue_signature)]_vars

\* a pattern flagged twice, then a call that is no flag of it
C10_Witness ==
    /\ call.op \notin {"flag_behavioral_pattern", "submit_discovery_answers"}
    /\ \E i \in DOMAIN behavioral_patterns :
          behavioral_patterns[i].occurrence_count = 2

\* C11: every security_issues, git_patterns and behavioral_patterns row names
\* a session that has a row in scan_sessions.
C11_RowsReferenceSessions ==
    /\ \A i \in DOMAIN security_issues :
          security_issues[i].session_id \in DOMAIN scan_sessions
    /\ \A i \in DOMAIN git_patterns :
          git_patterns[i].session_id \in DOMAIN scan_sessions
    /\ \A i \in DOMAIN behavioral_patterns :
          behavioral_patterns[i].session_id \in DOMAIN scan_sessions

\* C12: a fix attempt recorded through save_fix_attempt_tool for a repository
\* and an issue type has a fix_attempts row for (repo_id, issue_type), and a
\* get_repo_context for that repository returns it among its fix_attempts
\* (the rows are fewer than the 10 the query is limited to).
C12_FixAttemptInContext ==
    \A k \in FlagKeys :
        fix_calls[k] >= 1 =>
            /\ \E i \in FixAttemptRows(fix_attempts, k[1]) :
                  fix_attempts[i].issue_type = k[2]
            /\ ( /\ call.op = "get_repo_context"
                 /\ result.status = "success"
                 /\ current_repo_id = k[1] )
                   => \E a \in result.fix_attempts : a.issue_type = k[2]

\* C13: in every step each row of fix_attempts and of fix_attempts_roasting
\* stays as it is, a save_fix_attempt_tool call that returns success adds
\* exactly one row to the log, and no other step adds or removes one.
C13_FixAttemptsAppendOnly ==
    [][/\ \A i \in DOMAIN fix_attempts :
             i \in DOMAIN fix_attempts' /\ fix_attempts'[i] = fix_attempts[i]
       /\ \A i \in DOMAIN fix_attempts_roasting :
             /\ i \in DOMAIN fix_attempts_roasting'
             /\ fix_attempts_roasting'[i] = fix_attempts_roasting[i]
       /\ Len(fix_attempts') + Len(fix_attempts_roasting')
             = Len(fix_attempts) + Len(fix_attempts_roasting)
                 + (IF Called("save_fix_attempt_tool") /\ result'.status = "success"
                    THEN 1 ELSE 0)]_vars

\* two fix attempts recorded at different times, both rows in the log
C13_Witness ==
    /\ call.op = "save_fix_attempt_tool"
    /\ result.status = "success"
    /\ Len(fix_attempts_roasting) = 2
    /\ fix_attempts_roasting[1].attempted_at < fix_attempts_roasting[2].attempted_at

\* this step is a call that refers to repository repo_path: a set_repository
\* that passed the path checks, or a repository tool on the current repository
References(repo_path) ==
    \/ /\ Called("set_repository")
       /\ call'.repo_path = repo_path
       /\ HasGitDir(repo_path)
    \/ /\ Called("get_repo_context") \/ Called("flag_repo_issue")
       /\ result'.status = "success"
       /\ current_repo_path = repo_path

\* C14: a step keeps every repositories row with its path and its
\* first_analyzed_at; a path never has two rows; a call that refers to a
\* path leaves exactly one row for it, the row it had before if it had one,
\* and that row's id is the current repository id.
C14_OneRowPerRepository ==
    [][/\ \A i \in DOMAIN repositories :
             /\ i \in DOMAIN repositories'
             /\ repositories'[i].repo_path = repositories[i].repo_path
             /\ repositories'[i].first_analyzed_at = repositories[i].first_analyzed_at
       /\ \A i, j \in DOMAIN repositories' :
             repositories'[i].repo_path = repositories'[j].repo_path => i = j
       /\ \A repo_path \in ValidRepos :
             References(repo_path) =>
                 /\ RepoRows(repositories', repo_path) = {current_repo_id'}
                 /\ RepoRows(repositories, repo_path) # {}
                       => RepoRows(repositories', repo_path)
                              = RepoRows(repositories, repo_path)]_vars

\* two repositories referenced, the first one set again at a later time: its
\* row keeps its id and its first_analyzed_at
C14_Witness ==
    /\ call.op = "set_repository"
    /\ result.status = "success"
    /\ Len(repositories) = 2
    /\ current_repo_id = 1
    /\ repositories[1].repo_path = call.repo_path
    /\ repositories[1].first_analyzed_at < repositories[1].last_analyzed_at

\* this step is a call of one of the query operations
QueryStep ==
    \/ Called("get_repo_context")
    \/ Called("get_scan_history")
    \/ Called("query_recurring_issues")
    \/ Called("get_session_details")
    \/ Called("generate_fix_prompt")

\* C15: a step that is a query leaves every table as it was.
C15_QueriesArePureReads ==
    [][QueryStep => (store' = store /\ fixes' = fixes)]_vars

\* C16: whatever fails inside a tool, the tool returns a result whose status
\* is success, warning or error, an error carrying a message; no exception
\* leaves the tool.
C16_FailuresAreStructured ==
    call.op # "none" =>
        /\ result.status \in {"success", "warning", "error"}
        /\ result.status = "error" => "message" \in DOMAIN result

\* C17: a save_scan_results call that returns an error leaves every table as
\* it was before the call.
C17_FailedSaveLeavesStore ==
    [][(Called("save_scan_results") /\ result'.status = "error")
          => (store' = store /\ fixes' = fixes)]_vars

\* this step is a call of a session tool with an id that names no session
UnknownSessionStep ==
    /\ \/ Called("submit_discovery_answers")
       \/ Called("save_scan_results")
       \/ Called("close_session")
    /\ call'.session_id \notin DOMAIN scan_sessions

\* C18: a session tool called with an id that names no session returns an
\* error; get_scan_history and query_recurring_issues for a repository that
\* has no rows return success with an empty list.
C18_UnknownSessionIsAnError ==
    [][/\ UnknownSessionStep => result'.status = "error"
       /\ ( /\ Called("get_scan_history")
            /\ \A i \in DOMAIN scan_sessions :
                  scan_sessions[i].repo_path # call'.repo_path )
              => (result'.status = "success" /\ result'.scans = {})
       /\ ( /\ Called("query_recurring_issues")
            /\ \A i \in DOMAIN recurring_issues :
                  recurring_issues[i].repo_path # call'.repo_path )
              => (result'.status = "success" /\ result'.recurring_issues = {})]_vars

\* the tools that work on the current repository
ScopedTools ==
    {"analyze_commit_patterns", "analyze_message_language"}
        \cup {"compare_message_vs_diff", "get_temporal_patterns"}
        \cup {"get_project_summary", "get_repo_context"}
        \cup {"flag_repo_issue", "save_fix_attempt_tool"}

\* C19: while the current repository path and id are both unset (at start
\* and after a restart), a call of a repository-scoped tool returns the
\* error that names set_repository and changes neither the tables nor the
\* current repository.
C19_NoRepositoryIsAnError ==
    [][( /\ ops' # ops
         /\ call'.op \in ScopedTools
         /\ current_repo_path = NoRepoPath
         /\ current_repo_id = NoRepoId )
          => /\ result'.status = "error"
             /\ result'.message = "No repository set. Call set_repository() first."
             /\ store' = store
             /\ fixes' = fixes
             /\ process' = process]_vars

\* a repository was set, the server restarted, and a repository-scoped tool
\* is then refused while the repository's row is still there
C19_Witness ==
    /\ call.op \in ScopedTools
    /\ result.status = "error"
    /\ result.message = "No repository set. Call set_repository() first."
    /\ current_repo_path = NoRepoPath
    /\ current_repo_id = NoRepoId
    /\ repositories # <<>>

\* C20: start_session with a path that does not exist, or that exists and is
\* no git repository, returns an error and leaves every table as it was.
C20_InvalidPathOpensNoSession ==
    [][( /\ Called("start_session")
         /\ call'.repo_path \notin ValidRepos )
          => /\ result'.status = "error"
             /\ store' = store
             /\ fixes' = fixes]_vars

\* with a session in the store, start_session on a directory without .git
\* is refused
C20_Witness ==
    /\ call.op = "start_session"
    /\ call.repo_path = "/plain"
    /\ result.status = "error"
    /\ result.message = "Not a git repository"
    /\ scan_sessions # <<>>

-----------------------------------------------------------------------------
(* The detectors *)

\* the last call was this detector, with a repository set and a git read
\* that returned: the result is the detector's report over the window
Analyzed(op) ==
    /\ call.op = op
    /\ current_repo_path # NoRepoPath
    /\ call.git_read_ok

\* C21: the temporal detector, with no commit inside the lookback window,
\* returns a successful report with total_commits = 0 and works_late_nights,
\* works_weekends and consistent_schedule all false.
C21_EmptyLookbackReportsZero ==
    ( /\ Analyzed("get_temporal_patterns")
      /\ CommitsSince(current_repo_path, call.days) = <<>> )
    => /\ result.status = "success"
       /\ "total_commits" \in DOMAIN result
       /\ result.total_commits = 0
       /\ "patterns" \in DOMAIN result
       /\ ~result.patterns.works_late_nights
       /\ ~result.patterns.works_weekends
       /\ ~result.patterns.consistent_schedule

\* C22: the message-language detector, over a window of no commits, returns
\* a successful report with every count 0, every percentage 0 and the four
\* flags false.
C22_EmptyWindowLanguageReport ==
    ( /\ Analyzed("analyze_message_language")
      /\ iter_commits(current_repo_path, call.limit) = <<>> )
    => /\ result.status = "success"
       /\ \A category \in {"minimizing_language", "defensive_language",
                           "perfectionist_language", "vague_language"} :
              /\ result[category].count = 0
              /\ result[category].percentage = 0
       /\ ~result.patterns.frequently_minimizes
       /\ ~result.patterns.frequently_defensive
       /\ ~result.patterns.seeks_perfection
       /\ ~result.patterns.often_vague

\* C23: the commit-size/timing detector, over an empty window, returns a
\* successful report with average 0, the small, large and night counts 0 and
\* the four flags false.
C23_EmptyWindowCommitReport ==
    ( /\ Analyzed("analyze_commit_patterns")
      /\ iter_commits(current_repo_path, call.limit) = <<>> )
    => /\ result.status = "success"
       /\ result.total_commits = 0
       /\ result.avg_lines_per_commit = 0
       /\ result.small_commits_count = 0
       /\ result.large_commits_count = 0
       /\ result.night_commits_count = 0
       /\ ~result.patterns.has_many_small_commits
       /\ ~result.patterns.has_large_commits
       /\ ~result.patterns.commits_at_night
       /\ ~result.patterns.inconsistent_sizing

\* the detector was asked for no commits of a repository that has several
C23_Witness ==
    /\ Analyzed("analyze_commit_patterns")
    /\ call.limit = 0
    /\ Len(git_history[current_repo_path]) >= 2
    /\ result.status = "success"
    /\ result.total_commits = 0

\* the entries of a mismatch list that have the type
EntriesOfType(mismatches, type) ==
    {j \in 1..Len(mismatches) : mismatches[j].type = type}

\* C24: the number of downplaying entries is the number of commits of the
\* window whose first message line has a minimizing keyword and whose lines
\* changed exceed 100; frequently_downplays is true exactly when that number
\* exceeds 3; a window of "quick fix" commits of 300 lines has one entry per
\* commit.
C24_DownplayingCount ==
    Analyzed("compare_message_vs_diff")
    => LET commit_window == iter_commits(current_repo_path, call.limit)
           downplayed ==
               {i \in 1..Len(commit_window) :
                   /\ ContainsAny({"quick", "small", "minor", "tiny", "little", "just"},
                                  lower(FirstLine(commit_window[i].message)))
                   /\ commit_window[i].lines > 100}
           entries == EntriesOfType(result.mismatches, "downplaying")
       IN  /\ result.status = "success"
           /\ Cardinality(entries) = Cardinality(downplayed)
           /\ result.patterns.frequently_downplays <=> Cardinality(downplayed) > 3
           /\ Cardinality(downplayed) = 3 => ~result.patterns.frequently_downplays
           /\ (\A i \in 1..Len(commit_window) :
                   /\ commit_window[i].message = "quick fix"
                   /\ commit_window[i].lines = 300)
              => Cardinality(entries) = Len(commit_window)

\* four commits "quick fix" of 300 lines in a window that also has a commit
\* that is not downplayed
C24_Witness ==
    /\ Analyzed("compare_message_vs_diff")
    /\ Cardinality(EntriesOfType(result.mismatches, "downplaying")) = 4
    /\ result.total_commits_analyzed > 4
    /\ result.patterns.frequently_downplays

\* C25: over a window that is not empty each of the four category counts is
\* the number of commits of the window that match the category, so it is
\* between 0 and the window size, each percentage is between 0 and 100, and
\* a commit is counted in 0 to 4 categories.
C25_CountsAndPercentagesInRange ==
    ( /\ Analyzed("analyze_message_language")
      /\ iter_commits(current_repo_path, call.limit) # <<>> )
    => LET commit_window == iter_commits(current_repo_path, call.limit)
           n == Len(commit_window)
           words == [minimizing_language |-> language_minimizing_words,
                     defensive_language |-> defensive_words,
                     perfectionist_language |-> perfectionist_words,
                     vague_language |-> vague_words]
           matching(category) ==
               {i \in 1..n : ContainsAny(words[category], lower(commit_window[i].message))}
       IN  /\ result.status = "success"
           /\ \A category \in DOMAIN words :
                  /\ result[category].count = Cardinality(matching(category))
                  /\ result[category].count \in 0..n
                  /\ result[category].percentage \in 0..1000
           /\ \A i \in 1..n :
                  Cardinality({category \in DOMAIN words : i \in matching(category)})
                      \in 0..4

\* a window with a commit that matches all four categories and one that
\* matches none
C25_Witness ==
    /\ Analyzed("analyze_message_language")
    /\ result.status = "success"
    /\ result.total_commits >= 2
    /\ result.minimizing_language.count = 1
    /\ result.defensive_language.count = 1
    /\ result.perfectionist_language.count = 1
    /\ result.vague_language.count = 1
    /\ result.minimizing_language.percentage < 1000
    /\ \E i \in 1..Len(git_history[current_repo_path]) :
           git_history[current_repo_path][i].sha = "c3c3c3c3"

-----------------------------------------------------------------------------
(* Restarts *)

\* the issue_flags table that the last restart found
FoundAtRestart == restarts[Len(restarts)]

\* C26: a restart clears the current repository path and id and leaves every
\* row of every table as it was; a row the restart found keeps its key and
\* its first_detected_at afterwards and its count never falls; after a
\* set_repository on the same path get_repo_context returns the flagged
\* issues of the repository with the counts of all the flag calls made, which
\* are the rows the restart found when nothing was flagged since; and a flag
\* of a key that the restart found continues from the count it found.
C26_RestartKeepsRows ==
    /\ [][Called("restart")
          => /\ current_repo_path' = NoRepoPath
             /\ current_repo_id' = NoRepoId
             /\ store' = store
             /\ fixes' = fixes]_vars
    /\ [](restarts # <<>>
          => \A i \in DOMAIN FoundAtRestart :
                 /\ i \in DOMAIN issue_flags
                 /\ issue_flags[i].repo_id = FoundAtRestart[i].repo_id
                 /\ issue_flags[i].issue_type = FoundAtRestart[i].issue_type
                 /\ issue_flags[i].first_detected_at = FoundAtRestart[i].first_detected_at
                 /\ issue_flags[i].occurrence_count >= FoundAtRestart[i].occurrence_count)
    /\ []( ( /\ restarts # <<>>
             /\ call.op = "get_repo_context"
             /\ result.status = "success" )
           => /\ \A i \in DOMAIN repositories :
                     repositories[i].repo_path = current_repo_path => i = current_repo_id
              /\ \A k \in FlagKeys :
                     k[1] = current_repo_id /\ flag_calls[k] >= 1
                     => \E issue \in result.flagged_issues :
                            /\ issue.issue_type = k[2]
                            /\ issue.occurrence_count = flag_calls[k]
              /\ issue_flags = FoundAtRestart
                 => result.flagged_issues
                        = {FoundAtRestart[i] :
                              i \in {j \in DOMAIN FoundAtRestart :
                                        FoundAtRestart[j].repo_id = current_repo_id}} )
    /\ [][\A k \in FlagKeys :
              ( /\ restarts # <<>>
                /\ FlagStep(k) )
              => \A i \in FlagRows(issue_flags, k[1], k[2]) :
                     /\ FlagRows(issue_flags', k[1], k[2]) = {i}
                     /\ issue_flags'[i].occurrence_count
                            = issue_flags[i].occurrence_count + 1]_vars

\* an issue flagged once, a restart, the same repository set again and the
\* issue flagged again: its row counts 2
C26_Witness ==
    /\ restarts # <<>>
    /\ call.op = "flag_repo_issue"
    /\ result.status = "success"
    /\ \E i \in DOMAIN FoundAtRestart :
           /\ FoundAtRestart[i].repo_id = current_repo_id
           /\ FoundAtRestart[i].issue_type = call.issue_type
           /\ FoundAtRestart[i].occurrence_count = 1
           /\ issue_flags[i].occurrence_count = 2

-----------------------------------------------------------------------------
(* Repository rows *)

\* C27: the repository path of every session has a row in repositories.
C27_SessionRepositoryResolves ==
    \A s \in DOMAIN scan_sessions :
        RepoRows(repositories, scan_sessions[s].repo_path) # {}

\* C28: a set_repository on a path that has a row refreshes the row's
\* last_analyzed_at and increases its total_scans, and after a successful
\* save_scan_results for a session the row of the session's repository has
\* total_scans > 0.
C28_ReferencesCountScans ==
    [][/\ ( /\ Called("set_repository")
            /\ call'.repo_path \in ValidRepos )
          => \A i \in RepoRows(repositories, call'.repo_path) :
                 /\ repositories'[i].last_analyzed_at = clock
                 /\ repositories'[i].total_scans > repositories[i].total_scans
       /\ ( /\ Called("save_scan_results")
            /\ result'.status = "success"
            /\ call'.session_id \in DOMAIN scan_sessions )
          => \A i \in RepoRows(repositories, scan_sessions[call'.session_id].repo_path) :
                 repositories'[i].total_scans > 0]_vars

-----------------------------------------------------------------------------
(* Discovery answers *)

\* the behavioral_patterns rows named user_self_assessment of a session
SelfAssessmentRows(patterns, session_id) ==
    {i \in DOMAIN patterns :
        /\ patterns[i].session_id = session_id
        /\ patterns[i].pattern_name = "user_self_assessment"}

-----------------------------------------------------------------------------
(* Saved reports *)

\* C30: a successful save_scan_results with a detector report of t true
\* flags and c commits and a scanner report of f findings appends exactly
\* t + min(c, 10) git_patterns rows, min(c, 10) of them notable_commit rows,
\* and f security_issues rows, all with the call's session id, and no
\* git_patterns row for a flag that is false.
C30_RowsPerReport ==
    [][( /\ Called("save_scan_results")
         /\ result'.status = "success" )
       => LET report == call'.git_analysis
              t == Cardinality({n \in DOMAIN report.patterns : report.patterns[n][2]})
              c == Len(report.commits)
              noted == IF c < 10 THEN c ELSE 10
              f == Len(call'.security_analysis.issues)
              added == (Len(git_patterns) + 1) .. Len(git_patterns')
              inserted == (Len(security_issues) + 1) .. Len(security_issues')
          IN  /\ Len(git_patterns') = Len(git_patterns) + t + noted
              /\ \A i \in DOMAIN git_patterns : git_patterns'[i] = git_patterns[i]
              /\ \A i \in added : git_patterns'[i].session_id = call'.session_id
              /\ Cardinality({i \in added :
                     git_patterns'[i].pattern_type = "notable_commit"}) = noted
              /\ \A n \in DOMAIN report.patterns :
                     Cardinality({i \in added :
                         git_patterns'[i].pattern_type = report.patterns[n][1]})
                         = IF report.patterns[n][2] THEN 1 ELSE 0
              /\ Len(security_issues') = Len(security_issues) + f
              /\ \A i \in DOMAIN security_issues :
                     security_issues'[i] = security_issues[i]
              /\ \A i \in inserted :
                     security_issues'[i].session_id = call'.session_id]_vars

\* a report with 11 commits, two true flags and a false one, and two
\* findings, saved for a session: 12 git_patterns rows and 2 security_issues
\* rows
C30_Witness ==
    /\ call.op = "save_scan_results"
    /\ result.status = "success"
    /\ call.session_id \in DOMAIN scan_sessions
    /\ Len(call.git_analysis.commits) = 11
    /\ Len(call.security_analysis.issues) = 2
    /\ Cardinality({i \in DOMAIN git_patterns :
           git_patterns[i].session_id = call.session_id}) = 12
    /\ Cardinality({i \in DOMAIN security_issues :
           security_issues[i].session_id = call.session_id}) = 2

-----------------------------------------------------------------------------
(* The session lifecycle *)

\* C31: close_session on an existing session, open or completed, returns
\* success and leaves the session completed with total_issues 0 and
\* scan_duration_ms 0, and every other session as it was; so does a second
\* close_session on it.
C31_CloseIsIdempotent ==
    [][( /\ Called("close_session")
         /\ call'.session_id \in DOMAIN scan_sessions )
       => /\ result'.status = "success"
          /\ DOMAIN scan_sessions' = DOMAIN scan_sessions
          /\ scan_sessions'[call'.session_id].completed_at # NULL
          /\ scan_sessions'[call'.session_id].total_issues = 0
          /\ scan_sessions'[call'.session_id].scan_duration_ms = 0
          /\ \A s \in DOMAIN scan_sessions :
                 s # call'.session_id => scan_sessions'[s] = scan_sessions[s]]_vars

\* a session that save_scan_results completed with two findings and a
\* duration, closed afterwards: its row counts 0 issues and 0 duration
C31_Witness ==
    /\ call.op = "close_session"
    /\ result.status = "success"
    /\ call.session_id \in DOMAIN scan_sessions
    /\ scan_sessions[call.session_id].completed_at # NULL
    /\ scan_sessions[call.session_id].total_issues = 0
    /\ scan_sessions[call.session_id].scan_duration_ms = 0
    /\ Cardinality({i \in DOMAIN security_issues :
           security_issues[i].session_id = call.session_id}) = 2
    /\ Len(scan_sessions) = 1
    /\ \E i \in DOMAIN recurring_issues :
           recurring_issues[i].repo_path = scan_sessions[call.session_id].repo_path

-----------------------------------------------------------------------------
(* Session details *)

\* the severity vocabulary, most severe first: critical > high > medium > low
SeverityRank(severity) ==
    IF severity = "critical" THEN 4
    ELSE IF severity = "high" THEN 3
    ELSE IF severity = "medium" THEN 2
    ELSE 1

\* C32: in the security issues get_session_details returns no less severe
\* issue comes before a more severe one.
C32_IssuesOrderedBySeverity ==
    ( /\ call.op = "get_session_details"
      /\ result.session # NULL )
    => \A i, j \in DOMAIN result.security_issues :
           i < j => SeverityRank(security_issues[result.security_issues[i]].severity)
                        >= SeverityRank(security_issues[result.security_issues[j]].severity)

-----------------------------------------------------------------------------
(* Classification by the first message line *)

\* C33: the message-language detector counts a commit in a category exactly
\* when the first line of its message has a word of the category, so a
\* keyword that occurs only after the first line does not count.
C33_FirstLineClassifies ==
    ( /\ Analyzed("analyze_message_language")
      /\ iter_commits(current_repo_path, call.limit) # <<>> )
    => LET commit_window == iter_commits(current_repo_path, call.limit)
           words == [minimizing_language |-> language_minimizing_words,
                     defensive_language |-> defensive_words,
                     perfectionist_language |-> perfectionist_words,
                     vague_language |-> vague_words]
       IN  \A category \in DOMAIN words :
               result[category].count =
                   Cardinality({i \in 1..Len(commit_window) :
                       ContainsAny(words[category],
                                   lower(FirstLine(commit_window[i].message)))})

-----------------------------------------------------------------------------
(* The recurring-issue memory *)

\* the sum of the occurrence counts of the recurring_issues rows of a path
RECURSIVE RecurringTotal(_, _)
RecurringTotal(recurring, repo_path) ==
    IF recurring = <<>> THEN 0
    ELSE (IF Head(recurring).repo_path = repo_path
          THEN Head(recurring).occurrence_count ELSE 0)
         + RecurringTotal(Tail(recurring), repo_path)

\* C35: for every repository path the occurrence counts of its
\* recurring_issues rows sum to the number of security_issues rows attached to
\* sessions of that path.
C35_EveryFindingCountedOnce ==
    \A repo_path \in ValidRepos :
        RecurringTotal(recurring_issues, repo_path)
            = Cardinality({i \in DOMAIN security_issues :
                  /\ security_issues[i].session_id \in DOMAIN scan_sessions
                  /\ scan_sessions[security_issues[i].session_id].repo_path = repo_path})

-----------------------------------------------------------------------------
(* The most recently started session *)

\* C36: every session of a repository other than one with the greatest
\* start timestamp is completed, and of the sessions that share the greatest
\* start timestamp at most one is open.
C36_OnlyNewestSessionOpen ==
    \A repo_path \in ValidRepos :
        LET mine == {s \in DOMAIN scan_sessions : scan_sessions[s].repo_path = repo_path}
            newest == get_scan_history_first(scan_sessions, repo_path)
        IN  /\ \A s \in mine \ newest : scan_sessions[s].completed_at # NULL
            /\ Cardinality({s \in newest : scan_sessions[s].completed_at = NULL}) <= 1

-----------------------------------------------------------------------------
(* Concurrent start_session calls *)

\* C37: of start_session calls for one repository that run at the same time
\* at most one creates a session: with no session closed, a repository has at
\* most one session, and at most one caller holds a new session id for it.
C37_ConcurrentStartsCreateOne ==
    \A repo_path \in ValidRepos :
        /\ Cardinality({s \in DOMAIN scan_sessions :
               scan_sessions[s].repo_path = repo_path}) <= 1
        /\ Cardinality(OpenSessions(repo_path)) <= 1
        /\ Cardinality({c \in Callers :
               /\ req[c].op = "start_session"
               /\ pc[c] = "idle"
               /\ req[c].repo_path = repo_path
               /\ req[c].status = "success"}) <= 1

-----------------------------------------------------------------------------
(* set_repository that reports an error *)

\* C38: a set_repository call that returns status error leaves the current
\* repository path and id as they were before the call.
C38_FailedSelectionKeepsRepository ==
    [][(Called("set_repository") /\ result'.status = "error")
          => (/\ current_repo_path' = current_repo_path
              /\ current_repo_id' = current_repo_id)]_vars

-----------------------------------------------------------------------------
(* Issue signatures *)

\* the findings stored for sessions of repo_path whose signature is that of
\* the recurring_issues row i
FindingsOfRow(repo_path, i) ==
    {s \in DOMAIN security_issues :
        /\ security_issues[s].session_id \in DOMAIN scan_sessions
        /\ scan_sessions[security_issues[s].session_id].repo_path = repo_path
        /\ issue_signature(security_issues[s]) = recurring_issues[i].issue_signature}

\* C39: the signature separates findings: a repository has one
\* recurring_issues row per signature, and the findings of the repository
\* that a row stands for all have the same category and the same first 100
\* characters of summary.
C39_SignatureSeparatesFindings ==
    \A i \in DOMAIN recurring_issues :
        LET repo_path == recurring_issues[i].repo_path
        IN  /\ \A j \in DOMAIN recurring_issues :
                   (/\ recurring_issues[j].repo_path = repo_path
                    /\ recurring_issues[j].issue_signature =
                           recurring_issues[i].issue_signature) => j = i
            /\ \A s, t \in FindingsOfRow(repo_path, i) :
                   /\ security_issues[s].category = security_issues[t].category
                   /\ Truncate(security_issues[s].summary, SignaturePrefixLen) =
                          Truncate(security_issues[t].summary, SignaturePrefixLen)

-----------------------------------------------------------------------------
(* Isolation of the keyed records *)

\* the repo_path of a session, NoRepoPath when there is no such session
RepoOfSession(session_id) ==
    IF session_id \in DOMAIN scan_sessions
    THEN scan_sessions[session_id].repo_path
    ELSE NoRepoPath

\* C40: records are isolated by key: flag_repo_issue on (r, t) leaves the
\* issue_flags rows of another repository or issue type unchanged,
\* flag_behavioral_pattern on (s, p) leaves the behavioral_patterns rows of
\* another session or pattern unchanged, and save_scan_results on a session
\* of repository r leaves the recurring_issues rows and the sessions of every
\* other repository unchanged.
C40_RecordsIsolatedByKey ==
    [][/\ Called("flag_repo_issue") =>
              \A i \in DOMAIN issue_flags :
                  (issue_flags[i].repo_id # current_repo_id
                      \/ issue_flags[i].issue_type # call'.issue_type)
                  => /\ i \in DOMAIN issue_flags'
                     /\ issue_flags'[i] = issue_flags[i]
       /\ Called("flag_behavioral_pattern") =>
              \A i \in DOMAIN behavioral_patterns :
                  (behavioral_patterns[i].session_id # call'.session_id
                      \/ behavioral_patterns[i].pattern_name # call'.pattern_name)
                  => /\ i \in DOMAIN behavioral_patterns'
                     /\ behavioral_patterns'[i] = behavioral_patterns[i]
       /\ Called("save_scan_results") =>
              /\ \A i \in DOMAIN recurring_issues :
                     recurring_issues[i].repo_path # RepoOfSession(call'.session_id)
                     => /\ i \in DOMAIN recurring_issues'
                        /\ recurring_issues'[i] = recurring_issues[i]
              /\ \A i \in DOMAIN scan_sessions :
                     scan_sessions[i].repo_path # RepoOfSession(call'.session_id)
                     => /\ i \in DOMAIN scan_sessions'
                        /\ scan_sessions'[i] = scan_sessions[i]
      ]_vars

\* findings with one signature were ingested for sessions of two
\* repositories, the second twice: the row of the first repository still
\* counts 1, the row of the second counts 2
C40_Witness ==
    /\ call.op = "save_scan_results"
    /\ result.status = "success"
    /\ call.session_id \in DOMAIN scan_sessions
    /\ \E i, j \in DOMAIN recurring_issues :
          /\ recurring_issues[i].repo_path # RepoOfSession(call.session_id)
          /\ recurring_issues[j].repo_path = RepoOfSession(call.session_id)
          /\ recurring_issues[i].issue_signature = recurring_issues[j].issue_signature
          /\ recurring_issues[i].occurrence_count = 1
          /\ recurring_issues[j].occurrence_count = 2
    /\ \E s \in DOMAIN scan_sessions :
          /\ scan_sessions[s].repo_path # RepoOfSession(call.session_id)
          /\ scan_sessions[s].completed_at # NULL

\* one issue type flagged in two repositories, the second after the first
C40_FlagWitness ==
    /\ call.op = "flag_repo_issue"
    /\ result.status = "success"
    /\ \E i, j \in DOMAIN issue_flags :
          /\ issue_flags[i].repo_id # current_repo_id
          /\ issue_flags[j].repo_id = current_repo_id
          /\ issue_flags[i].issue_type = call.issue_type
          /\ issue_flags[j].issue_type = call.issue_type

\* one pattern flagged in two sessions, the second twice
C40_PatternWitness ==
    /\ call.op = "flag_behavioral_pattern"
    /\ \E i, j \in DOMAIN behavioral_patterns :
          /\ behavioral_patterns[i].session_id # call.session_id
          /\ behavioral_patterns[j].session_id = call.session_id
          /\ behavioral_patterns[i].pattern_name = call.pattern_name
          /\ behavioral_patterns[j].pattern_name = call.pattern_name
          /\ behavioral_patterns[i].occurrence_count = 1
          /\ behavioral_patterns[j].occurrence_count = 2

====
